---- MODULE Spec2Model ----
(***************************************************************************)
(* Model of centipede's ConcurrentByteSet / LayeredConcurrentByteSet       *)
(* (src/centipede/concurrent_byteset.h) and of its feature domains,        *)
(* feature encoders and FeatureArray (src/centipede/feature.h), and of     *)
(* fuzztest's tables of recent compares and the dictionaries built from    *)
(* them (src/fuzztest/internal/table_of_recent_compares.h), of the flags   *)
(* that make an Environment (src/centipede/environment_flags.cc) and of    *)
(* the silencing of stdout and stderr (src/fuzztest/internal/logging.cc).  *)
(*                                                                         *)
(* The byte-set state holds two byte sets of the same size: a single-layer *)
(* ConcurrentByteSet<kSize> (bytes_) and a TwoLayerConcurrentByteSet<kSize>*)
(* (upper_layer_, lower_layer_).                                           *)
(*   Spec        one thread; every call is made on both sets               *)
(*   SpecSat     one thread; long runs of SaturatedIncrement on one index  *)
(*   SpecConc    writer threads, one atomic load or store per step; clear  *)
(*               and drain only while no writer is inside a call           *)
(*   SpecNested  one LayeredConcurrentByteSet whose upper or lower layer   *)
(*               is itself layered, or a two-layer set of the same size    *)
(*   SpecArray   one FeatureArray<kArraySize>                              *)
(*   SpecFeature calls of the Domain members and the feature encoders,     *)
(*               on 64-bit unsigned values                                 *)
(*   SpecTorc    one TableOfRecentCompares<T>, T of 1, 2, 4 or 8 bytes     *)
(*   SpecMem     one TableOfRecentlyComparedBuffers                        *)
(*   SpecDict    one TablesOfRecentCompares, one ContainerDictionary and   *)
(*               one IntegerDictionary<uint32_t>                           *)
(*   SpecPeriod  one table filled by kTableSize Insert calls in a row      *)
(*   SpecRace    threads inside Insert on one TableOfRecentCompares<T>,    *)
(*               one read or write of a member per step                    *)
(*   SpecFlags   one call of CreateEnvironmentFromFlags                    *)
(*   SpecLogging calls of SilenceTargetStdoutAndStderr and                 *)
(*               RestoreTargetStdoutAndStderr                              *)
(* __builtin_trap() ends the process: a state that records a trap has no   *)
(* successor.                                                              *)
(***************************************************************************)
EXTENDS Integers, Sequences, FiniteSets, TLC

\* ---------------------------------------------------------------- sizes
\* ConcurrentByteSet::kSizeMultiple
kSizeMultiple == 64
\* kWordSize = sizeof(uintptr_t) on the 64-bit targets centipede builds for
kWordSize == 8
\* The ratio TwoLayerConcurrentByteSet fixes between lower and upper layer.
kTwoLayerRatio == 64
\* Number of 4096-byte units of the byte sets under test.
NumUnits == 2
\* template parameter kSize of both byte sets; the smallest sizes for which
\* the upper layer ConcurrentByteSet<kSize / 64> passes its static_assert
kSize == NumUnits * kTwoLayerRatio * kSizeMultiple
\* Upper::kSizeInBytes of TwoLayerConcurrentByteSet<kSize>
kUpperSize == kSize \div kTwoLayerRatio
\* LayeredConcurrentByteSet::kLayerRatio
kLayerRatio == kSize \div kUpperSize
\* LayeredConcurrentByteSet::kSizeMultiple
kLayeredSizeMultiple == kSizeMultiple * kSizeMultiple

\* conversion of an int to uint8_t
ToUint8(n) == n % 256

\* -------------------------------------------------- unsigned arithmetic
\* uint64_t, size_t and uintptr_t values exceed the integers of the checker:
\* a natural number is the sequence of its digits in base 2^9, the least
\* significant first and the most significant non-zero (0 is <<>>).  27 and
\* 63 are multiples of 9, so a split at bit 27 or at bit 63 is a split between
\* digits.
kDigitBits == 3 * 3
kDigitBase == 2 ^ kDigitBits

\* the digit of x of weight kDigitBase ^ (i - 1)
Digit(x, i) == IF i <= Len(x) THEN x[i] ELSE 0

\* x without its leading zero digits
RECURSIVE Normalized(_)
Normalized(x) ==
  IF x = <<>> THEN <<>>
  ELSE IF x[Len(x)] = 0 THEN Normalized(SubSeq(x, 1, Len(x) - 1))
  ELSE x

\* the natural number n, an integer of the checker
RECURSIVE FromInt(_)
FromInt(n) ==
  IF n = 0 THEN <<>> ELSE <<n % kDigitBase>> \o FromInt(n \div kDigitBase)

\* 2 ^ k
Pow2(k) ==
  [i \in 1..((k \div kDigitBits) + 1) |->
     IF i = (k \div kDigitBits) + 1 THEN 2 ^ (k % kDigitBits) ELSE 0]

\* x + y + carry, from digit i on
RECURSIVE AddFrom(_, _, _, _)
AddFrom(x, y, i, carry) ==
  IF i > Len(x) /\ i > Len(y)
    THEN (IF carry = 0 THEN <<>> ELSE <<carry>>)
    ELSE LET sum == Digit(x, i) + Digit(y, i) + carry
         IN  <<sum % kDigitBase>> \o AddFrom(x, y, i + 1, sum \div kDigitBase)

\* x + y
NumAdd(x, y) == Normalized(AddFrom(x, y, 1, 0))

\* x - y - borrow, from digit i on, for x >= y
RECURSIVE SubFrom(_, _, _, _)
SubFrom(x, y, i, borrow) ==
  IF i > Len(x) THEN <<>>
  ELSE LET diff == Digit(x, i) - Digit(y, i) - borrow
       IN  IF diff < 0
             THEN <<diff + kDigitBase>> \o SubFrom(x, y, i + 1, 1)
             ELSE <<diff>> \o SubFrom(x, y, i + 1, 0)

\* x < y, deciding from digit i downwards
RECURSIVE LessFrom(_, _, _)
LessFrom(x, y, i) ==
  IF i = 0 THEN FALSE
  ELSE IF Digit(x, i) # Digit(y, i) THEN Digit(x, i) < Digit(y, i)
  ELSE LessFrom(x, y, i - 1)

\* x < y, x <= y
NumLess(x, y) == LessFrom(x, y, IF Len(x) > Len(y) THEN Len(x) ELSE Len(y))
NumLeq(x, y) == ~NumLess(y, x)

\* x - y, for x >= y
NumSub(x, y) == Normalized(SubFrom(x, y, 1, 0))

\* x * d + carry for one digit d, from digit i of x on
RECURSIVE MulDigitFrom(_, _, _, _)
MulDigitFrom(x, d, i, carry) ==
  IF i > Len(x)
    THEN (IF carry = 0 THEN <<>> ELSE <<carry>>)
    ELSE LET prod == x[i] * d + carry
         IN  <<prod % kDigitBase>> \o MulDigitFrom(x, d, i + 1, prod \div kDigitBase)

\* x * y, y taken from digit j on
RECURSIVE MulFrom(_, _, _)
MulFrom(x, y, j) ==
  IF j > Len(y) THEN <<>>
  ELSE NumAdd(MulDigitFrom(x, y[j], 1, 0), <<0>> \o MulFrom(x, y, j + 1))

\* x * y
NumMul(x, y) == Normalized(MulFrom(x, y, 1))

\* x mod 2 ^ 64: the value a uint64_t, size_t or uintptr_t keeps of x; bit 63
\* is the lowest bit of the eighth digit
ToUint64(x) ==
  Normalized([i \in 1..(IF Len(x) < 8 THEN Len(x) ELSE 8) |->
                IF i = 8 THEN x[i] % 2 ELSE x[i]])

\* a + b, a - b and a * b on uint64_t
U64Add(a, b) == ToUint64(NumAdd(a, b))
U64Sub(a, b) == IF NumLeq(b, a) THEN NumSub(a, b) ELSE NumSub(NumAdd(a, Pow2(64)), b)
U64Mul(a, b) == ToUint64(NumMul(a, b))

\* bit i of x
Bit(x, i) == (Digit(x, (i \div kDigitBits) + 1) \div (2 ^ (i % kDigitBits))) % 2

\* byte j of x, byte 0 the least significant
ByteOfNum(x, j) ==
  Bit(x, 8 * j) + 2 * Bit(x, 8 * j + 1) + 4 * Bit(x, 8 * j + 2) + 8 * Bit(x, 8 * j + 3)
    + 16 * Bit(x, 8 * j + 4) + 32 * Bit(x, 8 * j + 5) + 64 * Bit(x, 8 * j + 6)
    + 128 * Bit(x, 8 * j + 7)

\* x / 2 ^ 27 and x % 2 ^ 27
DivPow27(x) == IF Len(x) <= 3 THEN <<>> ELSE SubSeq(x, 4, Len(x))
ModPow27(x) == Normalized(SubSeq(x, 1, IF Len(x) < 3 THEN Len(x) ELSE 3))

\* ------------------------------------------------------------ byte arrays
\* uint8_t bytes_[size] is held as the function from the indices of its
\* non-zero bytes to their values; every index outside its domain holds 0.

\* uint8_t bytes_[size], zeroed by the loader (static storage)
ZeroBytes == <<>>

\* bytes_[i]
ByteAt(bytes, i) == IF i \in DOMAIN bytes THEN bytes[i] ELSE 0

\* mutant: the store is one word wide, so it zeroes the kWordSize - 1 bytes
\* that follow byte i
StoreByte_WordWide(bytes, i, value) ==
  [j \in (DOMAIN bytes \ (i..(i + kWordSize - 1))) \cup (IF value = 0 THEN {} ELSE {i}) |->
     IF j = i THEN value ELSE bytes[j]]

\* __atomic_store_n(&bytes_[i], value, __ATOMIC_RELAXED)
StoreByte(bytes, i, value) ==
  IF value = 0
    THEN [j \in DOMAIN bytes \ {i} |-> bytes[j]]
    ELSE [j \in DOMAIN bytes \cup {i} |-> IF j = i THEN value ELSE bytes[j]]

\* ------------------------------------------------ ConcurrentByteSet<size>
\* Every operation yields [trap, bytes] (and calls, the sequence of
\* action(index, value) invocations, for the drain).

\* mutant: memset over sizeof(a pointer) instead of sizeof(bytes_)
CBS_clear_FirstWordOnly(bytes) ==
  [j \in DOMAIN bytes \ (0..(kWordSize - 1)) |-> bytes[j]]

\* void clear(): memset(bytes_, 0, sizeof(bytes_))
CBS_clear(bytes) == ZeroBytes

\* mutant: the counter saturates one short of 255
ShouldStore_Below254(counter) == counter < 254

\* mutant: the counter is stored back without the test
ShouldStore_Always(counter) == TRUE

\* mutant: the check written as the comment of Set words it, `idx` must be
\* <= kSize
CBS_IndexTraps_OffByOne(size, idx) == idx > size

\* `if (idx >= kSize) __builtin_trap();`
CBS_IndexTraps(size, idx) == idx >= size

\* void Set(size_t idx, uint8_t value)
CBS_Set(bytes, size, idx, value) ==
  IF CBS_IndexTraps(size, idx)
    THEN [trap |-> TRUE, bytes |-> bytes]
    ELSE [trap |-> FALSE, bytes |-> StoreByte(bytes, idx, value)]

\* an increment that stores counter + 2
IncrementedCounter_ByTwo(counter) == ToUint8(counter + 2)

\* mutant: the store written with counter++, which stores the loaded value
IncrementedCounter_PostIncrement(counter) == ToUint8(counter)

\* the value SaturatedIncrement stores for a loaded counter: counter + 1,
\* converted to uint8_t
IncrementedCounter(counter) == ToUint8(counter + 1)

\* the test `counter != 255` of SaturatedIncrement
ShouldStore(counter) == counter # 255

\* void SaturatedIncrement(size_t idx), run without interruption
CBS_SaturatedIncrement(bytes, size, idx) ==
  IF CBS_IndexTraps(size, idx)
    THEN [trap |-> TRUE, bytes |-> bytes]
    ELSE LET counter == ByteAt(bytes, idx)
         IN  [trap |-> FALSE,
              bytes |-> IF ShouldStore(counter)
                          THEN StoreByte(bytes, idx, IncrementedCounter(counter))
                          ELSE bytes]

\* the three argument checks of ConcurrentByteSet::ForEachNonZeroByte
CBS_RangeTraps(size, from, to) ==
  \/ from % kSizeMultiple # 0
  \/ to % kSizeMultiple # 0
  \/ to > size

\* __builtin_memcpy(&word, ptr, kWordSize): the word as its kWordSize bytes,
\* position 0 being the byte at the lowest address
LoadWord(bytes, ptr) == [pos \in 0..(kWordSize - 1) |-> ByteAt(bytes, ptr + pos)]

\* !word
WordIsZero(word) == \A pos \in DOMAIN word : word[pos] = 0

\* mutant: the shift applied to a word loaded on a big-endian host
ByteOfWord_BigEndian(word, pos) == word[kWordSize - 1 - pos]

\* uint8_t value = word >> (pos * CHAR_BIT) on a little-endian host
ByteOfWord(word, pos) == word[pos]

\* mutant: only the lowest byte of the word is zeroed
ZeroWord_FirstByteOnly(bytes, ptr) ==
  [j \in DOMAIN bytes \ {ptr} |-> bytes[j]]

\* __builtin_memset(ptr, 0, kWordSize)
ZeroWord(bytes, ptr) ==
  [j \in DOMAIN bytes \ (ptr..(ptr + kWordSize - 1)) |-> bytes[j]]

\* the inner loop over pos: the action calls one non-zero word produces
RECURSIVE WordCalls(_, _, _)
WordCalls(word, ptr, pos) ==
  IF pos >= kWordSize THEN <<>>
  ELSE LET value == ByteOfWord(word, pos)
       IN  (IF value # 0 THEN << <<ptr + pos, value>> >> ELSE <<>>)
           \o WordCalls(word, ptr, pos + 1)

\* `if (!word) continue;`: the first word the loop reaches from ptr, in
\* steps of kWordSize and before end, that is not zero; end when there is
\* none.  Only words holding a non-zero byte qualify.
SkipZeroWords(bytes, ptr, end) ==
  LET starts == {i - ((i - ptr) % kWordSize) : i \in {j \in DOMAIN bytes : j >= ptr}}
      nonzero == {p \in starts : p < end /\ ~WordIsZero(LoadWord(bytes, p))}
  IN  IF nonzero = {} THEN end
      ELSE CHOOSE p \in nonzero : \A q \in nonzero : p <= q

\* the loop over the words from ptr up to end: acc = [bytes, calls]
RECURSIVE WordLoop(_, _, _)
WordLoop(acc, ptr, end) ==
  IF ptr >= end THEN acc
  ELSE LET next == SkipZeroWords(acc.bytes, ptr, end)
           word == LoadWord(acc.bytes, next)
       IN  IF next >= end THEN acc
           ELSE WordLoop([bytes |-> ZeroWord(acc.bytes, next),
                          calls |-> acc.calls \o WordCalls(word, next, 0)],
                         next + kWordSize, end)

\* void ForEachNonZeroByte(action, from, to).  A from beyond to (the only way
\* from can exceed size without a trap) leaves the loop without an iteration.
CBS_ForEachNonZeroByte(bytes, size, from, to) ==
  IF CBS_RangeTraps(size, from, to)
    THEN [trap |-> TRUE, bytes |-> bytes, calls |-> <<>>]
    ELSE LET r == WordLoop([bytes |-> bytes, calls |-> <<>>], from, to)
         IN  [trap |-> FALSE, bytes |-> r.bytes, calls |-> r.calls]

\* ------------------------------------- LayeredConcurrentByteSet<kSize, ...>
\* upper_layer_ is a ConcurrentByteSet<kUpperSize>, lower_layer_ a
\* ConcurrentByteSet<kSize>.  Operations yield [trap, upper, lower].

\* void clear()
L_clear(upper, lower) ==
  [trap |-> FALSE, upper |-> CBS_clear(upper), lower |-> CBS_clear(lower)]

\* `if (idx >= kSize) __builtin_trap();` of Set and SaturatedIncrement
L_IndexTraps(idx) == idx >= kSize

\* mutant: the write to the upper layer is left out
L_MarkUpper_Skipped(upper, idx) == [trap |-> FALSE, bytes |-> upper]

\* mutant: the upper layer is indexed with idx itself
L_MarkUpper_Unscaled(upper, idx) == CBS_Set(upper, kUpperSize, idx, 1)

\* upper_layer_.Set(idx / kLayerRatio, 1)
L_MarkUpper(upper, idx) == CBS_Set(upper, kUpperSize, idx \div kLayerRatio, 1)

\* void Set(size_t idx, uint8_t value), run without interruption
L_Set(upper, lower, idx, value) ==
  IF L_IndexTraps(idx)
    THEN [trap |-> TRUE, upper |-> upper, lower |-> lower]
    ELSE LET u == L_MarkUpper(upper, idx)
             l == CBS_Set(lower, kSize, idx, value)
         IN  IF u.trap
               THEN [trap |-> TRUE, upper |-> upper, lower |-> lower]
               ELSE [trap |-> l.trap, upper |-> u.bytes, lower |-> l.bytes]

\* void SaturatedIncrement(size_t idx), run without interruption
L_SaturatedIncrement(upper, lower, idx) ==
  IF L_IndexTraps(idx)
    THEN [trap |-> TRUE, upper |-> upper, lower |-> lower]
    ELSE LET u == L_MarkUpper(upper, idx)
             l == CBS_SaturatedIncrement(lower, kSize, idx)
         IN  IF u.trap
               THEN [trap |-> TRUE, upper |-> upper, lower |-> lower]
               ELSE [trap |-> l.trap, upper |-> u.bytes, lower |-> l.bytes]

\* the three argument checks of LayeredConcurrentByteSet::ForEachNonZeroByte
L_RangeTraps(from, to) ==
  \/ to > kSize
  \/ from % kLayeredSizeMultiple # 0
  \/ to % kLayeredSizeMultiple # 0

\* mutant: the lambda takes the upper index for the lower one
L_DrainChunk_Unscaled(acc, idx) ==
  IF acc.trap THEN acc
  ELSE LET lower_from == idx
           lower_to == lower_from + kLayerRatio
           r == CBS_ForEachNonZeroByte(acc.lower, kSize, lower_from, lower_to)
       IN  [trap |-> r.trap, lower |-> r.bytes, calls |-> acc.calls \o r.calls,
            examined |-> acc.examined \cup {<<lower_from, lower_to>>}]

\* the lambda handed to upper_layer_.ForEachNonZeroByte: drains the chunk of
\* the lower layer that upper byte idx stands for.  acc threads the lower
\* layer, the calls of `action` and the ranges [lower_from, lower_to) handed
\* to the lower layer through the successive invocations; a trap inside the
\* lower layer ends the run.
L_DrainChunk(acc, idx) ==
  IF acc.trap THEN acc
  ELSE LET lower_from == idx * kLayerRatio
           lower_to == lower_from + kLayerRatio
           r == CBS_ForEachNonZeroByte(acc.lower, kSize, lower_from, lower_to)
       IN  [trap |-> r.trap, lower |-> r.bytes, calls |-> acc.calls \o r.calls,
            examined |-> acc.examined \cup {<<lower_from, lower_to>>}]

\* the invocations of the lambda, in the order the upper drain makes them
RECURSIVE L_DrainChunks(_, _, _)
L_DrainChunks(acc, upperCalls, k) ==
  IF k > Len(upperCalls) THEN acc
  ELSE L_DrainChunks(L_DrainChunk(acc, upperCalls[k][1]), upperCalls, k + 1)

\* void ForEachNonZeroByte(action, from, to)
L_ForEachNonZeroByte(upper, lower, from, to) ==
  IF L_RangeTraps(from, to)
    THEN [trap |-> TRUE, upper |-> upper, lower |-> lower, calls |-> <<>>,
          examined |-> {}]
    ELSE LET upper_from == from \div kLayerRatio
             upper_to == to \div kLayerRatio
             u == CBS_ForEachNonZeroByte(upper, kUpperSize, upper_from, upper_to)
             acc == L_DrainChunks([trap |-> FALSE, lower |-> lower, calls |-> <<>>,
                                   examined |-> {}],
                                  u.calls, 1)
         IN  IF u.trap
               THEN [trap |-> TRUE, upper |-> upper, lower |-> lower, calls |-> <<>>,
                     examined |-> {}]
               ELSE [trap |-> acc.trap, upper |-> u.bytes, lower |-> acc.lower,
                     calls |-> acc.calls, examined |-> acc.examined]

\* --------------------------- LayeredConcurrentByteSet<kSize, Upper, Lower>
\* The class template for any Upper and Lower.  A byte set is the record
\*   [kind |-> "flat", size, bytes]           ConcurrentByteSet<size>
\*   [kind |-> "layered", size, upper, lower] LayeredConcurrentByteSet<size, ...>
\* upper and lower being byte sets.  Operations yield [trap, set] (and calls
\* for the drain); after a trap the process is gone and set is the byte set
\* as it was before the call.

\* ConcurrentByteSet<size>, zeroed
Flat(size) == [kind |-> "flat", size |-> size, bytes |-> ZeroBytes]

\* LayeredConcurrentByteSet<size, Upper, Lower>, zeroed
Layered(size, upper, lower) ==
  [kind |-> "layered", size |-> size, upper |-> upper, lower |-> lower]

\* TwoLayerConcurrentByteSet<size>
TwoLayer(size) == Layered(size, Flat(size \div kTwoLayerRatio), Flat(size))

\* the static_asserts of the two class templates
RECURSIVE StaticAssertsHold(_)
StaticAssertsHold(s) ==
  IF s.kind = "flat" THEN s.size % kSizeMultiple = 0
  ELSE /\ s.size = s.lower.size
       /\ s.lower.size % s.upper.size = 0
       /\ StaticAssertsHold(s.upper)
       /\ StaticAssertsHold(s.lower)

\* kSizeMultiple of a byte set: 64, or Lower::kSizeMultiple * Upper::kSizeMultiple
RECURSIVE G_SizeMultiple(_)
G_SizeMultiple(s) ==
  IF s.kind = "flat" THEN kSizeMultiple
  ELSE G_SizeMultiple(s.lower) * G_SizeMultiple(s.upper)

\* mutant: the ratio TwoLayerConcurrentByteSet uses, whatever the layers
G_LayerRatio_TwoLayer(s) == kTwoLayerRatio

\* a ratio of 64 * 64, whatever the layers
G_LayerRatio_Squared(s) == kLayeredSizeMultiple

\* kLayerRatio = Lower::kSizeInBytes / Upper::kSizeInBytes
G_LayerRatio(s) == s.lower.size \div s.upper.size

\* void clear()
RECURSIVE G_clear(_)
G_clear(s) ==
  IF s.kind = "flat" THEN [s EXCEPT !.bytes = CBS_clear(s.bytes)]
  ELSE [s EXCEPT !.upper = G_clear(s.upper), !.lower = G_clear(s.lower)]

\* void Set(size_t idx, uint8_t value)
RECURSIVE G_Set(_, _, _)
G_Set(s, idx, value) ==
  IF s.kind = "flat"
    THEN LET r == CBS_Set(s.bytes, s.size, idx, value)
         IN  [trap |-> r.trap, set |-> [s EXCEPT !.bytes = r.bytes]]
  ELSE IF idx >= s.size THEN [trap |-> TRUE, set |-> s]
  ELSE LET u == G_Set(s.upper, idx \div G_LayerRatio(s), 1)
           l == G_Set(s.lower, idx, value)
       IN  IF u.trap \/ l.trap
             THEN [trap |-> TRUE, set |-> s]
             ELSE [trap |-> FALSE, set |-> [s EXCEPT !.upper = u.set, !.lower = l.set]]

\* void ForEachNonZeroByte(action, from, to), and the invocations of its
\* lambda for the calls upperCalls[k..] that the drain of the upper layer
\* makes: each drains [idx * kLayerRatio, idx * kLayerRatio + kLayerRatio) of
\* the lower layer; acc = [trap, set, calls] threads the lower layer through.
RECURSIVE G_ForEachNonZeroByte(_, _, _)
RECURSIVE G_DrainChunks(_, _, _, _)
G_DrainChunks(acc, upperCalls, k, ratio) ==
  IF k > Len(upperCalls) \/ acc.trap THEN acc
  ELSE LET lower_from == upperCalls[k][1] * ratio
           lower_to == lower_from + ratio
           r == G_ForEachNonZeroByte(acc.set, lower_from, lower_to)
       IN  G_DrainChunks([trap |-> r.trap, set |-> r.set,
                          calls |-> acc.calls \o r.calls],
                         upperCalls, k + 1, ratio)

G_ForEachNonZeroByte(s, from, to) ==
  IF s.kind = "flat"
    THEN LET r == CBS_ForEachNonZeroByte(s.bytes, s.size, from, to)
         IN  [trap |-> r.trap, set |-> [s EXCEPT !.bytes = r.bytes], calls |-> r.calls]
  ELSE IF \/ to > s.size
          \/ from % G_SizeMultiple(s) # 0
          \/ to % G_SizeMultiple(s) # 0
    THEN [trap |-> TRUE, set |-> s, calls |-> <<>>]
  ELSE LET upper_from == from \div G_LayerRatio(s)
           upper_to == to \div G_LayerRatio(s)
           u == G_ForEachNonZeroByte(s.upper, upper_from, upper_to)
           acc == G_DrainChunks([trap |-> FALSE, set |-> s.lower, calls |-> <<>>],
                                u.calls, 1, G_LayerRatio(s))
       IN  IF u.trap \/ acc.trap
             THEN [trap |-> TRUE, set |-> s, calls |-> <<>>]
             ELSE [trap |-> FALSE,
                   set |-> [s EXCEPT !.upper = u.set, !.lower = acc.set],
                   calls |-> acc.calls]

\* --------------------------------------------------------------- feature.h
\* feature_t, size_t and uintptr_t are 64 bits wide; their values are natural
\* numbers below 2 ^ 64 in the representation above.

\* Domain::kDomainSize = 1ULL << 27
kDomainSize == Pow2(27)

\* the uses of __COUNTER__ in feature.h, in the order of their lines, each
\* under the name of the Domain it initialises
DomainDeclarations ==
  <<"kUnknown", "kPCs", "k8bitCounters", "kDataFlow", "kCMP", "kCMPEq",
    "kCMPModDiff", "kCMPHamming", "kCMPDiffLog", "kCallStack", "kBoundedPath",
    "kPCPair",
    "kUserDomains[0]", "kUserDomains[1]", "kUserDomains[2]", "kUserDomains[3]",
    "kUserDomains[4]", "kUserDomains[5]", "kUserDomains[6]", "kUserDomains[7]",
    "kUserDomains[8]", "kUserDomains[9]", "kUserDomains[10]", "kUserDomains[11]",
    "kUserDomains[12]", "kUserDomains[13]", "kUserDomains[14]", "kUserDomains[15]",
    "kLastDomain">>

\* the Domain objects of namespace feature_domains
Domains == {DomainDeclarations[i] : i \in DOMAIN DomainDeclarations}

\* mutant: __COUNTER__ was used once before feature.h
Counter_UsedBefore(d) ==
  CHOOSE i \in DOMAIN DomainDeclarations : DomainDeclarations[i] = d

\* the value of __COUNTER__ in the initialiser of d: the number of its
\* earlier uses
Counter(d) ==
  (CHOOSE i \in DOMAIN DomainDeclarations : DomainDeclarations[i] = d) - 1

\* constexpr size_t domain_id() const, of the Domain constructed from
\* {__COUNTER__}
domain_id(d) == Counter(d)

\* constexpr feature_t begin() const
Domain_begin(d) == U64Mul(kDomainSize, FromInt(domain_id(d)))

\* constexpr feature_t end() const
Domain_end(d) == U64Add(Domain_begin(d), kDomainSize)

\* mutant: the test against end() is left out
Domain_Contains_NoEnd(d, feature) == NumLeq(Domain_begin(d), feature)

\* bool Contains(feature_t feature) const
Domain_Contains(d, feature) ==
  NumLeq(Domain_begin(d), feature) /\ NumLess(feature, Domain_end(d))

\* mutant: number is added as it is
Domain_ConvertToMe_NoModulo(d, number) == U64Add(Domain_begin(d), number)

\* feature_t ConvertToMe(size_t number) const
Domain_ConvertToMe(d, number) == U64Add(Domain_begin(d), ModPow27(number))

\* static size_t FeatureToDomainId(feature_t feature)
FeatureToDomainId(feature) == DivPow27(feature)

\* static size_t FeatureToIndexInDomain(feature_t feature)
FeatureToIndexInDomain(feature) == ModPow27(feature)

\* kNumDomains = kLastDomain.domain_id()
kNumDomains == domain_id("kLastDomain")

\* the number of bits of the int x without its leading zeros
RECURSIVE BitLength(_)
BitLength(x) == IF x = 0 THEN 0 ELSE 1 + BitLength(x \div 2)

\* __builtin_clz(x) for x # 0: the leading zero bits of a 32-bit integer
BuiltinClz(x) == 32 - BitLength(x)

\* mutant: the `- 1` is left out
CounterLog2_OffByOne(counter_value) == 4 * 8 - BuiltinClz(counter_value)

\* uint32_t counter_log2 = sizeof(uint32_t) * 8 - 1 - __builtin_clz(counter_value)
CounterLog2(counter_value) == 4 * 8 - 1 - BuiltinClz(counter_value)

\* size_t Convert8bitCounterToNumber(size_t pc_index, uint8_t counter_value):
\* [trap, value]
Convert8bitCounterToNumber(pc_index, counter_value) ==
  IF counter_value = 0
    THEN [trap |-> TRUE, value |-> <<>>]
    ELSE [trap |-> FALSE,
          value |-> U64Add(U64Mul(pc_index, FromInt(8)),
                           FromInt(CounterLog2(counter_value)))]

\* mutant: the feature is returned without the subtraction
ConvertPCFeatureToPcIndex_NoOffset(feature) ==
  IF ~Domain_Contains("kPCs", feature)
    THEN [trap |-> TRUE, value |-> <<>>]
    ELSE [trap |-> FALSE, value |-> feature]

\* size_t ConvertPCFeatureToPcIndex(feature_t feature): [trap, value]
ConvertPCFeatureToPcIndex(feature) ==
  IF ~Domain_Contains("kPCs", feature)
    THEN [trap |-> TRUE, value |-> <<>>]
    ELSE [trap |-> FALSE, value |-> U64Sub(feature, Domain_begin("kPCs"))]

\* mutant: the two PCs change places
ConvertPcPairToNumber_Swapped(pc1, pc2, max_pc) == U64Add(U64Mul(pc2, max_pc), pc1)

\* size_t ConvertPcPairToNumber(uintptr_t pc1, uintptr_t pc2, uintptr_t max_pc)
ConvertPcPairToNumber(pc1, pc2, max_pc) == U64Add(U64Mul(pc1, max_pc), pc2)

\* -x on uintptr_t
U64Neg(x) == U64Sub(<<>>, x)

\* ABToCmpModDiff with -diff <= 32 for -diff < 32
ABToCmpModDiff_InclusiveNeg(a, b) ==
  LET diff == U64Sub(a, b)
  IN  IF NumLeq(diff, FromInt(32)) THEN diff
      ELSE IF NumLeq(U64Neg(diff), FromInt(32))
        THEN U64Add(FromInt(32), U64Neg(diff))
      ELSE <<>>

\* ABToCmpModDiff(a, b): diff <= 32 ? diff : -diff < 32 ? 32 + -diff : 0
ABToCmpModDiff(a, b) ==
  LET diff == U64Sub(a, b)
  IN  IF NumLeq(diff, FromInt(32)) THEN diff
      ELSE IF NumLess(U64Neg(diff), FromInt(32))
        THEN U64Add(FromInt(32), U64Neg(diff))
      ELSE <<>>

\* m ^ n on the digits
RECURSIVE XorInt(_, _)
XorInt(m, n) ==
  IF m = 0 THEN n
  ELSE IF n = 0 THEN m
  ELSE (((m % 2) + (n % 2)) % 2) + 2 * XorInt(m \div 2, n \div 2)

\* a ^ b on uintptr_t
U64Xor(a, b) ==
  Normalized([i \in 1..(IF Len(a) > Len(b) THEN Len(a) ELSE Len(b)) |->
                XorInt(Digit(a, i), Digit(b, i))])

\* the number of one bits of the integer n
RECURSIVE PopcountInt(_)
PopcountInt(n) == IF n = 0 THEN 0 ELSE (n % 2) + PopcountInt(n \div 2)

\* __builtin_popcountll(x), an int
RECURSIVE BuiltinPopcountll(_)
BuiltinPopcountll(x) ==
  IF x = <<>> THEN 0
  ELSE PopcountInt(x[1]) + BuiltinPopcountll(SubSeq(x, 2, Len(x)))

\* conversion of an int to uintptr_t
IntToUintptr(n) == IF n >= 0 THEN FromInt(n) ELSE NumSub(Pow2(64), FromInt(0 - n))

\* ABToCmpHamming without the decrement
ABToCmpHamming_NoDecrement(a, b) == IntToUintptr(BuiltinPopcountll(U64Xor(a, b)))

\* ABToCmpHamming(a, b): __builtin_popcountll(a ^ b) - 1
ABToCmpHamming(a, b) == IntToUintptr(BuiltinPopcountll(U64Xor(a, b)) - 1)

\* Capacity of the FeatureArray under test (its template parameter kSize).
kArraySize == 3

\* mutant: the test written with <=
FA_HasSpace_Inclusive(num_features) == num_features <= kArraySize

\* `num_features_ < kSize`
FA_HasSpace(num_features) == num_features < kArraySize

\* void push_back(feature_t feature): [features, num]
FA_push_back(features, num, feature) ==
  IF FA_HasSpace(num)
    THEN [features |-> [i \in DOMAIN features \cup {num} |->
                          IF i = num THEN feature ELSE features[i]],
          num |-> num + 1]
    ELSE [features |-> features, num |-> num]

\* void clear(): [features, num]
FA_clear(features, num) == [features |-> features, num |-> 0]

\* size_t size() const
FA_size(features, num) == num

\* feature_t *data(): element i of the returned array
FA_data(features, i) == features[i]

\* ------------------------------------------ table_of_recent_compares.h
\* TableOfRecentCompares<T> for an unsigned T of w bytes is the record
\* [w, insert_index_, table_].  table_ is held as the function from the slots
\* whose entry is not the zero entry to their entries; every other slot holds
\* CompareEntry{0, 0}.  An operand is a natural number below 2 ^ (8 * w), in
\* the digits of the unsigned arithmetic above.  The functions that take a
\* ValueType are modelled for ValueType = T, as IntegerDictionary<T> calls
\* them on the table of its own width.

\* sizeof(T) of the four tables of TablesOfRecentCompares
OperandWidths == {1, 2, 4, 8}

\* conversion of the size_t n, below 2 ^ 31, to the unsigned type of w bytes
NarrowTo(w, n) == IF w >= 4 THEN n ELSE n % (2 ^ (8 * w))

\* m & n
RECURSIVE AndInt(_, _)
AndInt(m, n) ==
  IF m = 0 \/ n = 0 THEN 0
  ELSE ((m % 2) * (n % 2)) + 2 * AndInt(m \div 2, n \div 2)

\* TableOfRecentCompares::kTableSize
TORC_kTableSize(w) == 4096 \div w

\* TableOfRecentCompares::kValueMask, a T
TORC_kValueMask(w) == NarrowTo(w, TORC_kTableSize(w) - 1)

\* std::numeric_limits<T>::min() and max()
NumericMin(w) == <<>>
NumericMax(w) == NumSub(Pow2(8 * w), FromInt(1))

\* a table_ whose slots start as (1, 1)
ZeroEntry_Ones == [lhs |-> <<1>>, rhs |-> <<1>>]

\* CompareEntry{} of the zero-initialised table_
ZeroEntry == [lhs |-> <<>>, rhs |-> <<>>]

\* table_[idx]
EntryAt(table, idx) == IF idx \in DOMAIN table THEN table[idx] ELSE ZeroEntry

\* table_[idx].lhs = lhs; table_[idx].rhs = rhs
StoreEntry(table, idx, lhs, rhs) ==
  IF lhs = <<>> /\ rhs = <<>>
    THEN [j \in DOMAIN table \ {idx} |-> table[j]]
    ELSE [j \in DOMAIN table \cup {idx} |->
            IF j = idx THEN [lhs |-> lhs, rhs |-> rhs] ELSE table[j]]

\* a TableOfRecentCompares<T> after construction
TORC_New(w) == [w |-> w, insert_index_ |-> 0, table_ |-> <<>>]

\* the cursor update without the mask
TORC_NextIndex_Unmasked(w, insert_index) == insert_index * 37 + 89

\* the cursor update without the increment 89
TORC_NextIndex_NoIncrement(w, insert_index) == AndInt(insert_index * 37, TORC_kValueMask(w))

\* (insert_index_ * 37 + 89) & kValueMask
TORC_NextIndex(w, insert_index) == AndInt(insert_index * 37 + 89, TORC_kValueMask(w))

\* TableOfRecentCompares::Insert(lhs, rhs)
TORC_Insert(t, lhs, rhs) ==
  LET k == TORC_NextIndex(t.w, t.insert_index_)
  IN  [t EXCEPT !.insert_index_ = k, !.table_ = StoreEntry(@, k, lhs, rhs)]

\* n calls of Insert(lhs, rhs) in a row (the first half of the calls, then
\* the second half on the table the first half leaves)
RECURSIVE TORC_InsertTimes(_, _, _, _)
TORC_InsertTimes(t, lhs, rhs, n) ==
  IF n = 0 \/ t.insert_index_ < 0 THEN t
  ELSE IF n = 1 THEN TORC_Insert(t, lhs, rhs)
  ELSE TORC_InsertTimes(TORC_InsertTimes(t, lhs, rhs, n \div 2), lhs, rhs, n - (n \div 2))

\* std::optional<ValueType>
Nullopt == [has_value |-> FALSE, value |-> <<>>]
Some(value) == [has_value |-> TRUE, value |-> value]

\* GetMatchingIntegerDictionaryEntry(val, idx) that compares val with lhs only
GetMatchingIntegerDictionaryEntry_LhsOnly(t, val, idx) ==
  IF EntryAt(t.table_, idx).lhs = val THEN Some(EntryAt(t.table_, idx).rhs)
  ELSE Nullopt

\* GetMatchingIntegerDictionaryEntry(val, idx)
GetMatchingIntegerDictionaryEntry(t, val, idx) ==
  IF EntryAt(t.table_, idx).lhs = val THEN Some(EntryAt(t.table_, idx).rhs)
  ELSE IF EntryAt(t.table_, idx).rhs = val THEN Some(EntryAt(t.table_, idx).lhs)
  ELSE Nullopt

\* GetMatchingIntegerDictionaryEntry(val, idx, min, max)
GetMatchingIntegerDictionaryEntryInRange(t, val, idx, min, max) ==
  LET result == GetMatchingIntegerDictionaryEntry(t, val, idx)
  IN  IF result.has_value /\ (NumLess(result.value, min) \/ NumLess(max, result.value))
        THEN Nullopt
        ELSE result

\* dictionary_set.insert(value) on the absl::flat_hash_set, held as the
\* sequence of its elements
HashSetInsert(set, value) ==
  IF \E i \in DOMAIN set : set[i] = value THEN set ELSE Append(set, value)

\* the slots the loop over [0, kTableSize) reads: every slot whose entry is
\* not the zero entry and, when there is one, one of the slots that hold the
\* zero entry (they all yield the same dict_entry)
SlotsToRead(t) ==
  LET n == Cardinality(DOMAIN t.table_)
  IN  DOMAIN t.table_ \cup
        (IF n < TORC_kTableSize(t.w)
           THEN {CHOOSE i \in 0..n : i \notin DOMAIN t.table_}
           ELSE {})

\* the smallest slot of a set of slots
FirstSlot(slots) == CHOOSE i \in slots : \A j \in slots : i <= j

\* the loop of GetMatchingIntegerDictionaryEntries over the slots, in
\* increasing order; ranged tells which of the two loops runs
RECURSIVE CollectMatches(_, _, _, _, _, _, _)
CollectMatches(t, val, ranged, min, max, slots, dictionary_set) ==
  IF slots = {} THEN dictionary_set
  ELSE LET i == FirstSlot(slots)
           dict_entry == IF ranged
                           THEN GetMatchingIntegerDictionaryEntryInRange(t, val, i, min, max)
                           ELSE GetMatchingIntegerDictionaryEntry(t, val, i)
       IN  CollectMatches(t, val, ranged, min, max, slots \ {i},
                          IF dict_entry.has_value
                            THEN HashSetInsert(dictionary_set, dict_entry.value)
                            ELSE dictionary_set)

\* GetMatchingIntegerDictionaryEntries(val, min, max): the elements of
\* dictionary_set; the vector returned holds them in the order of iteration
\* of the hash set, which is unspecified
GetMatchingIntegerDictionaryEntries(t, val, min, max) ==
  IF min = NumericMin(t.w) /\ max = NumericMax(t.w)
    THEN CollectMatches(t, val, FALSE, min, max, SlotsToRead(t), <<>>)
    ELSE CollectMatches(t, val, TRUE, min, max, SlotsToRead(t), <<>>)

\* the orders in which a vector can hold the elements of the sequence seq
Orderings(seq) ==
  {[i \in DOMAIN seq |-> seq[p[i]]] :
     p \in {q \in [DOMAIN seq -> DOMAIN seq] : \A i, j \in DOMAIN seq : q[i] = q[j] => i = j}}

\* the value min <= val && val <= max lets through
InRange(val, min, max) ==
  IF NumLeq(min, val) /\ NumLeq(val, max) THEN Some(val) ELSE Nullopt

\* TableOfRecentCompares::GetRandomSide(prng, idx, min, max); coin is what
\* RandomBool(prng) returns.  Both branches read entry.lhs.
TORC_GetRandomSide(t, coin, idx, min, max) ==
  IF coin
    THEN InRange(EntryAt(t.table_, idx).lhs, min, max)
    ELSE InRange(EntryAt(t.table_, idx).lhs, min, max)

\* GetRandomTORCEntry that looks the slot up without the range
IntegerDictionary_GetRandomTORCEntry_Unranged(t, val, random_offset, coin, min, max) ==
  LET result == GetMatchingIntegerDictionaryEntry(t, val, random_offset)
  IN  IF ~result.has_value
        THEN TORC_GetRandomSide(t, coin, random_offset, min, max)
        ELSE result

\* IntegerDictionary<T>::GetRandomTORCEntry(val, prng, torc, min, max);
\* random_offset is what ChooseOffset(kTableSize, prng) returns and coin what
\* RandomBool(prng) returns
IntegerDictionary_GetRandomTORCEntry(t, val, random_offset, coin, min, max) ==
  LET result == GetMatchingIntegerDictionaryEntryInRange(t, val, random_offset, min, max)
  IN  IF ~result.has_value
        THEN TORC_GetRandomSide(t, coin, random_offset, min, max)
        ELSE result

\* TableOfRecentlyComparedBuffers is the record [insert_index_, table_];
\* table_ is held as the function from the slots that an Insert wrote to their
\* entries, every other slot holding ComparedBufferEntry{}.  buf1 and buf2 of
\* an entry are held as the sequence of their first bytes, up to the last
\* byte a copy wrote; the bytes after it hold 0.  A container is the sequence
\* of the bytes of its elements, each element sizeof(T) bytes.

\* TableOfRecentlyComparedBuffers::kTableSize, kValueMask, kEntrySize
MEM_kTableSize == 128
MEM_kValueMask == 127
MEM_kEntrySize == 128

\* ComparedBufferEntry{}
ZeroBufferEntry == [buf_size |-> 0, buf1 |-> <<>>, buf2 |-> <<>>]

\* buf[i - 1], for i in 1..kEntrySize
BufByte(buf, i) == IF i <= Len(buf) THEN buf[i] ELSE 0

\* table_[idx] of the buffer table
BufferEntryAt(table, idx) == IF idx \in DOMAIN table THEN table[idx] ELSE ZeroBufferEntry

\* a TableOfRecentlyComparedBuffers after construction
MEM_New == [insert_index_ |-> 0, table_ |-> <<>>]

\* (insert_index_ * 37 + 89) & kValueMask
MEM_NextIndex(insert_index) == AndInt(insert_index * 37 + 89, MEM_kValueMask)

\* std::copy(src, src + n, dst.begin())
CopyInto(dst, src, n) ==
  [i \in 1..(IF n > Len(dst) THEN n ELSE Len(dst)) |-> IF i <= n THEN src[i] ELSE dst[i]]

\* the clamp of Insert that lets n = kEntrySize through
ClampSize_Inclusive(n) == IF n > MEM_kEntrySize THEN MEM_kEntrySize - 1 ELSE n

\* if (n >= kEntrySize) n = kEntrySize - 1
ClampSize(n) == IF n >= MEM_kEntrySize THEN MEM_kEntrySize - 1 ELSE n

\* TableOfRecentlyComparedBuffers::Insert(buf1, buf2, n)
MEM_Insert(t, buf1, buf2, n) ==
  LET k == MEM_NextIndex(t.insert_index_)
      size == ClampSize(n)
      entry == BufferEntryAt(t.table_, k)
      written == [buf_size |-> size,
                  buf1 |-> CopyInto(entry.buf1, buf1, size),
                  buf2 |-> CopyInto(entry.buf2, buf2, size)]
  IN  [insert_index_ |-> k,
       table_ |-> [j \in DOMAIN t.table_ \cup {k} |-> IF j = k THEN written ELSE t.table_[j]]]

\* n calls of Insert(buf1, buf2, size) in a row (the first half of the calls,
\* then the second half on the table the first half leaves)
RECURSIVE MEM_InsertTimes(_, _, _, _, _)
MEM_InsertTimes(t, buf1, buf2, size, n) ==
  IF n = 0 \/ t.insert_index_ < 0 THEN t
  ELSE IF n = 1 THEN MEM_Insert(t, buf1, buf2, size)
  ELSE MEM_InsertTimes(MEM_InsertTimes(t, buf1, buf2, size, n \div 2), buf1, buf2, size,
                       n - (n \div 2))

\* std::optional<size_t>
NoHint == [has_value |-> FALSE, value |-> 0]

\* std::optional<DictionaryEntry<ContainerT>>
NoEntry == [has_value |-> FALSE, position_hint |-> NoHint, value |-> <<>>]
Entry(position_hint, value) ==
  [has_value |-> TRUE, position_hint |-> position_hint, value |-> value]

\* MakeContainer<ContainerT>(buf, buf_size)
MakeContainer(buf, buf_size) == [i \in 1..buf_size |-> BufByte(buf, i)]

\* the elements of val from element pos on start with the buf_size bytes of buf
MatchesAt(val, w, buf, buf_size, pos) ==
  \A i \in 1..buf_size : val[pos * w + i] = BufByte(buf, i)

\* the least element of a non-empty set of naturals
Least(S) == CHOOSE p \in S : \A q \in S : p <= q

\* std::search(val.begin(), val.end(), buf, buf + buf_size) from element pos
\* on, for elements of w bytes: the element offset of the first occurrence,
\* or val.size() for val.end()
SearchFrom(val, w, buf, buf_size, pos) ==
  LET found == {p \in pos..((Len(val) - buf_size) \div w) : MatchesAt(val, w, buf, buf_size, p)}
  IN  IF found = {} THEN Len(val) \div w ELSE Least(found)

\* GetMatchingContainerDictionaryEntry that searches for buf2 only
GetMatchingContainerDictionaryEntry_SecondOnly(w, val, buf1, buf2, buf_size) ==
  LET val_size == Len(val)
      end == Len(val) \div w
  IN  IF AndInt(buf_size, w - 1) # 0 \/ val_size < buf_size \/ buf_size = 0
        THEN NoEntry
      ELSE LET offset2 == SearchFrom(val, w, buf2, buf_size, 0)
           IN  IF offset2 # end
                 THEN Entry(Some(offset2), MakeContainer(buf1, buf_size))
                 ELSE NoEntry

\* TableOfRecentlyComparedBuffers::GetMatchingContainerDictionaryEntry(val,
\* buf1, buf2, buf_size) for a container of elements of w bytes
GetMatchingContainerDictionaryEntry(w, val, buf1, buf2, buf_size) ==
  LET val_size == Len(val)
      end == Len(val) \div w
  IN  IF AndInt(buf_size, w - 1) # 0 \/ val_size < buf_size \/ buf_size = 0
        THEN NoEntry
      ELSE LET offset1 == SearchFrom(val, w, buf1, buf_size, 0)
           IN  IF offset1 # end
                 THEN Entry(Some(offset1), MakeContainer(buf2, buf_size))
                 ELSE LET offset2 == SearchFrom(val, w, buf2, buf_size, 0)
                      IN  IF offset2 # end
                            THEN Entry(Some(offset2), MakeContainer(buf1, buf_size))
                            ELSE NoEntry

\* TableOfRecentlyComparedBuffers::GetMatchingContainerDictionaryEntries(val)
\* for a container of elements of w bytes: the elements of the hash set
\* `dictionary` after the loop over table_, in the order of their insertion.
\* A slot that no Insert wrote has buf_size 0 and adds nothing.
RECURSIVE CollectContainerMatches(_, _, _, _, _)
CollectContainerMatches(t, w, val, slots, dictionary) ==
  IF slots = {} THEN dictionary
  ELSE LET idx == FirstSlot(slots)
           dict_entry == GetMatchingContainerDictionaryEntry(
                           w, val, t.table_[idx].buf1, t.table_[idx].buf2,
                           t.table_[idx].buf_size)
       IN  CollectContainerMatches(
             t, w, val, slots \ {idx},
             IF dict_entry.has_value
               THEN HashSetInsert(dictionary, [position_hint |-> dict_entry.position_hint,
                                               value |-> dict_entry.value])
               ELSE dictionary)

GetMatchingContainerDictionaryEntries(t, w, val) ==
  CollectContainerMatches(t, w, val, DOMAIN t.table_, <<>>)

\* reinterpret_cast<const uint8_t*>(&x) for an integer x of size bytes, on a
\* little-endian machine
BytesOfInteger(x, size) == [j \in 1..size |-> ByteOfNum(x, j - 1)]

\* ContainerDictionary::GetMatchingContainerDictionaryEntryFromInteger(val,
\* lhs, rhs) for operands of size bytes
GetMatchingContainerDictionaryEntryFromInteger(w, val, lhs, rhs, size) ==
  GetMatchingContainerDictionaryEntry(w, val, BytesOfInteger(lhs, size),
                                      BytesOfInteger(rhs, size), size)

\* static_cast<uint32_t>(x)
CastToUint32(x) == Normalized([i \in 1..4 |-> IF i < 4 THEN Digit(x, i) ELSE Digit(x, i) % 32])

\* GetMatchingContainerDictionaryEntryFromIntegerWithCastTo<uint32_t>(val,
\* lhs, rhs)
GetMatchingContainerDictionaryEntryFromIntegerWithCastTo(w, val, lhs, rhs) ==
  GetMatchingContainerDictionaryEntry(w, val, BytesOfInteger(CastToUint32(lhs), 4),
                                      BytesOfInteger(CastToUint32(rhs), 4), 4)

\* the loop over the table of an integer table t that pushes every match
\* back: what the slots 0, 1, ... add to dictionary_.  cast_to is 4 for the
\* loop that casts to uint32_t, and 0 for the loops that do not cast.
PushedFrom(t, w, val, cast_to) ==
  LET dict_entry(lhs, rhs) ==
        IF cast_to = 4
          THEN GetMatchingContainerDictionaryEntryFromIntegerWithCastTo(w, val, lhs, rhs)
          ELSE GetMatchingContainerDictionaryEntryFromInteger(w, val, lhs, rhs, t.w)
      of_zero == dict_entry(<<>>, <<>>)
      of_slot == [i \in 1..TORC_kTableSize(t.w) |->
                    IF (i - 1) \in DOMAIN t.table_
                      THEN dict_entry(t.table_[i - 1].lhs, t.table_[i - 1].rhs)
                      ELSE of_zero]
      pushed == SelectSeq(of_slot, LAMBDA e : e.has_value)
  IN  [i \in DOMAIN pushed |-> [position_hint |-> pushed[i].position_hint,
                                value |-> pushed[i].value]]

\* ContainerDictionary::AddMatchingIntegerDictionaryEntriesFromTORC(val, torc)
\* for a container of elements of w bytes: dictionary_ after the call
AddMatchingIntegerDictionaryEntriesFromTORC(dictionary, w, val, i32, i64) ==
  LET size == Len(val) \div w
      with_32 == IF w <= 4 /\ size >= 4
                   THEN dictionary \o PushedFrom(i32, w, val, 0) \o PushedFrom(i64, w, val, 4)
                   ELSE dictionary
  IN  IF w <= 8 /\ size >= 8 THEN with_32 \o PushedFrom(i64, w, val, 0) ELSE with_32

\* MatchEntriesFromTableOfRecentCompares that keeps what dictionary_ held
ContainerDictionary_MatchEntriesFromTableOfRecentCompares_Keep(dictionary, from_buffers, w, val, i32, i64) ==
  AddMatchingIntegerDictionaryEntriesFromTORC(dictionary \o from_buffers, w, val, i32, i64)

\* ContainerDictionary::MatchEntriesFromTableOfRecentCompares(val, torc) for a
\* container of elements of w bytes: dictionary_ after the call; dictionary
\* is dictionary_ before the call, which the assignment overwrites, and
\* from_buffers the vector GetMatchingContainerDictionaryEntries returned
ContainerDictionary_MatchEntriesFromTableOfRecentCompares(dictionary, from_buffers, w, val, i32, i64) ==
  AddMatchingIntegerDictionaryEntriesFromTORC(from_buffers, w, val, i32, i64)

\* ContainerDictionary::AddEntry(val) and IntegerDictionary<T>::AddEntry(val)
ContainerDictionary_AddEntry(dictionary, val) == Append(dictionary, val)
IntegerDictionary_AddEntry(dictionary, val) == Append(dictionary, val)

\* IntegerDictionary<T>::MatchEntriesFromTableOfRecentCompares(val, torc, min,
\* max): dictionary_ after the call, in one of the orders the vector
\* returned can have; t is torc.Get<sizeof(T)>()
IntegerDictionary_MatchEntriesFromTableOfRecentCompares(dictionary, t, val, min, max) ==
  Orderings(GetMatchingIntegerDictionaryEntries(t, val, min, max))

\* ContainerDictionary::Size() and IntegerDictionary<T>::Size()
Dictionary_Size(dictionary) == Len(dictionary)

\* ------------------------------------------------- environment_flags.cc
\* The flags are the record of the values absl::GetFlag returns, the
\* Environment the record of the members that CreateEnvironmentFromFlags
\* computes from more than one flag: total_shards, my_shard_index,
\* num_threads, batch_size, has_input_wildcards and stop_at.  The other
\* members are copies of one flag each or come from methods of Environment.
\* A size_t is a natural number in the digits of the unsigned arithmetic
\* above.  An absl::Time is [kind, rep] with kind "finite" and rep the seconds
\* since the epoch, or kind "infinite-future" or "infinite-past"; an
\* absl::Duration is [kind, rep] with kind "finite" and rep in seconds, or
\* kind "infinite" or "-infinite".  binary is the sequence of the words of
\* the flag.

\* absl::InfiniteFuture(), absl::InfinitePast(), absl::InfiniteDuration()
InfiniteFuture == [kind |-> "infinite-future", rep |-> 0]
InfinitePast == [kind |-> "infinite-past", rep |-> 0]
InfiniteDuration == [kind |-> "infinite", rep |-> 0]

\* a time and a duration that are not infinite
FiniteTime(seconds) == [kind |-> "finite", rep |-> seconds]
FiniteDuration(seconds) == [kind |-> "finite", rep |-> seconds]

\* absl::Now() + stop_after, where now is what absl::Now() returns
TimePlus(now, duration) ==
  IF now.kind # "finite" THEN now
  ELSE IF duration.kind = "infinite" THEN InfiniteFuture
  ELSE IF duration.kind = "-infinite" THEN InfinitePast
  ELSE FiniteTime(now.rep + duration.rep)

\* a CHECK that failed, and a value computed without a failed CHECK
CheckFailed == [ok |-> FALSE, value |-> <<>>]
Checked(value) == [ok |-> TRUE, value |-> value]

\* bool + bool
BoolSum(a, b) == (IF a THEN 1 ELSE 0) + (IF b THEN 1 ELSE 0)

\* GetStopAtTime without the CHECK_LE
GetStopAtTime_NoCheck(stop_at, stop_after, now) ==
  LET stop_at_is_non_default == stop_at # InfiniteFuture
      stop_after_is_non_default == stop_after # InfiniteDuration
  IN  IF stop_at_is_non_default THEN Checked(stop_at)
      ELSE IF stop_after_is_non_default THEN Checked(TimePlus(now, stop_after))
      ELSE Checked(InfiniteFuture)

\* GetStopAtTime(stop_at, stop_after); now is what absl::Now() returns
GetStopAtTime(stop_at, stop_after, now) ==
  LET stop_at_is_non_default == stop_at # InfiniteFuture
      stop_after_is_non_default == stop_after # InfiniteDuration
  IN  IF ~(BoolSum(stop_at_is_non_default, stop_after_is_non_default) <= 1) THEN CheckFailed
      ELSE IF stop_at_is_non_default THEN Checked(stop_at)
      ELSE IF stop_after_is_non_default THEN Checked(TimePlus(now, stop_after))
      ELSE Checked(InfiniteFuture)

\* absl::StrContains(binary, "@@")
StrContainsWildcard(binary) == \E i \in DOMAIN binary : binary[i] = "@@"

\* the --j override that leaves my_shard_index alone
ApplyJ_KeepIndex(env, j) ==
  IF j # <<>>
    THEN [env EXCEPT !.total_shards = j, !.num_threads = j]
    ELSE env

\* if (size_t j = absl::GetFlag(FLAGS_j)) { ... }
ApplyJ(env, j) ==
  IF j # <<>>
    THEN [env EXCEPT !.total_shards = j, !.num_threads = j, !.my_shard_index = <<>>]
    ELSE env

\* the five CHECKs on the shards, the batch size and the threads
ShardChecksHold(env) ==
  /\ NumLeq(FromInt(1), env.total_shards)
  /\ NumLeq(FromInt(1), env.batch_size)
  /\ NumLeq(FromInt(1), env.num_threads)
  /\ NumLeq(env.num_threads, env.total_shards)
  /\ NumLeq(U64Add(env.my_shard_index, env.num_threads), env.total_shards)

\* CreateEnvironmentFromFlags(argv) for the flag values f
CreateEnvironmentFromFlags(f, now) ==
  LET stop_at == GetStopAtTime(f.stop_at, f.stop_after, now)
      env_from_flags == [total_shards |-> f.total_shards,
                         my_shard_index |-> f.first_shard_index,
                         num_threads |-> f.num_threads,
                         batch_size |-> f.batch_size,
                         has_input_wildcards |-> FALSE,
                         stop_at |-> stop_at.value]
      overridden == ApplyJ(env_from_flags, f.j)
  IN  IF ~stop_at.ok THEN CheckFailed
      ELSE IF ~ShardChecksHold(overridden) THEN CheckFailed
      ELSE IF StrContainsWildcard(f.binary)
        THEN Checked([overridden EXCEPT !.has_input_wildcards = TRUE,
                                        !.batch_size = FromInt(1)])
      ELSE Checked(overridden)

\* ------------------------------------------------------------ logging.cc
\* The Linux build.  The file descriptors of the process are the function
\* from the open descriptors to what they refer to: "terminal-in",
\* "terminal-out", "terminal-err" (what 0, 1 and 2 refer to when the process
\* starts) or "/dev/null".  A FILE* is the record [std, fd]: the stream stdout
\* or stderr of the C library (std TRUE) or a stream that fdopen made (std
\* FALSE), and the descriptor it writes to.  The logging state is the record
\* [ok, fds, stdout_file_, stderr_file_]; ok turns FALSE when a
\* FUZZTEST_INTERNAL_CHECK fails, which aborts the process.

STDOUT_FILENO == 1
STDERR_FILENO == 2

\* the streams stdout and stderr
Stdout == [std |-> TRUE, fd |-> STDOUT_FILENO]
Stderr == [std |-> TRUE, fd |-> STDERR_FILENO]

\* the lowest descriptor that is not open, which dup and fopen return
LowestFree(fds) ==
  CHOOSE n \in 0..Cardinality(DOMAIN fds) :
    n \notin DOMAIN fds /\ \A m \in 0..(n - 1) : m \in DOMAIN fds

\* descriptor new_fd opened on target
WithFd(fds, new_fd, target) ==
  [d \in DOMAIN fds \cup {new_fd} |-> IF d = new_fd THEN target ELSE fds[d]]

\* close(fd)
WithoutFd(fds, fd) == [d \in DOMAIN fds \ {fd} |-> fds[d]]

\* a failed FUZZTEST_INTERNAL_CHECK: Abort()
Aborted(l) == [l EXCEPT !.ok = FALSE]

\* Silence(fd): fopen("/dev/null"), dup2 onto fd, fclose
Silence(l, fd) ==
  LET tmp == LowestFree(l.fds)
      opened == WithFd(l.fds, tmp, "/dev/null")
      dupped == WithFd(opened, fd, opened[tmp])
  IN  [l EXCEPT !.fds = WithoutFd(dupped, tmp)]

\* DupAndSilence(fd); emfile says that dup fails for want of descriptors
DupAndSilence(l, fd, emfile) ==
  IF ~l.ok THEN l
  ELSE IF ~(fd = STDOUT_FILENO \/ fd = STDERR_FILENO) THEN Aborted(l)
  ELSE IF emfile \/ fd \notin DOMAIN l.fds THEN Aborted(l)
  ELSE LET new_fd == LowestFree(l.fds)
           new_output_file == [std |-> FALSE, fd |-> new_fd]
           dupped == [l EXCEPT !.fds = WithFd(l.fds, new_fd, l.fds[fd])]
       IN  IF fd = STDOUT_FILENO
             THEN Silence([dupped EXCEPT !.stdout_file_ = new_output_file], fd)
             ELSE Silence([dupped EXCEPT !.stderr_file_ = new_output_file], fd)

\* SilenceTargetStdoutAndStderr()
SilenceTargetStdoutAndStderr(l, emfile) ==
  DupAndSilence(DupAndSilence(l, STDOUT_FILENO, emfile), STDERR_FILENO, emfile)

\* RestoreTargetStdoutAndStderr() without its first two checks
RestoreTargetStdoutAndStderr_Unchecked(l) ==
  IF l.stderr_file_.fd \notin DOMAIN l.fds THEN Aborted(l)
  ELSE LET err_dupped == WithFd(l.fds, STDERR_FILENO, l.fds[l.stderr_file_.fd])
           err_closed == WithoutFd(err_dupped, l.stderr_file_.fd)
       IN  IF l.stdout_file_.fd \notin DOMAIN err_closed
             THEN Aborted([l EXCEPT !.fds = err_closed, !.stderr_file_ = Stderr])
           ELSE LET out_dupped == WithFd(err_closed, STDOUT_FILENO,
                                         err_closed[l.stdout_file_.fd])
                    out_closed == WithoutFd(out_dupped, l.stdout_file_.fd)
                IN  [l EXCEPT !.fds = out_closed, !.stderr_file_ = Stderr,
                              !.stdout_file_ = Stdout]

\* RestoreTargetStdoutAndStderr()
RestoreTargetStdoutAndStderr(l) ==
  IF ~(l.stderr_file_ # Stderr) THEN Aborted(l)
  ELSE IF ~(l.stdout_file_ # Stdout) THEN Aborted(l)
  ELSE IF l.stderr_file_.fd \notin DOMAIN l.fds THEN Aborted(l)
  ELSE LET err_dupped == WithFd(l.fds, STDERR_FILENO, l.fds[l.stderr_file_.fd])
           err_closed == WithoutFd(err_dupped, l.stderr_file_.fd)
       IN  IF l.stdout_file_.fd \notin DOMAIN err_closed
             THEN Aborted([l EXCEPT !.fds = err_closed, !.stderr_file_ = Stderr])
           ELSE LET out_dupped == WithFd(err_closed, STDOUT_FILENO,
                                         err_closed[l.stdout_file_.fd])
                    out_closed == WithoutFd(out_dupped, l.stdout_file_.fd)
                IN  [l EXCEPT !.fds = out_closed, !.stderr_file_ = Stderr,
                              !.stdout_file_ = Stdout]

\* GetStderr()
GetStderr(l) == l.stderr_file_

\* the logging state when the process starts
LoggingAtStart ==
  [ok |-> TRUE,
   fds |-> (0 :> "terminal-in" @@ 1 :> "terminal-out" @@ 2 :> "terminal-err"),
   stdout_file_ |-> Stdout,
   stderr_file_ |-> Stderr]

\* ------------------------------------------------------------------ state
VARIABLES
  bytes_,        \* ConcurrentByteSet<kSize>::bytes_ of the single-layer set
  upper_layer_,  \* bytes_ of LayeredConcurrentByteSet::upper_layer_
  lower_layer_,  \* bytes_ of LayeredConcurrentByteSet::lower_layer_
  trap1,         \* the last call trapped on the single-layer set
  trap2,         \* the last call trapped on the two-layer set
  op,            \* the last call: <<name, first argument, second argument>>
  calls1,        \* action calls made by the last call on the single-layer set
  calls2,        \* action calls made by the last call on the two-layer set
  examined,      \* the ranges <<lower_from, lower_to>> of the lower layer that
                 \* the last call on the two-layer set ran the lower drain on
  lastSet,       \* history: index -> value of its last Set, while setsOnly
  setsOnly,      \* history: only Set was called since the sets were last empty
  incs,          \* history: SaturatedIncrement calls since the sets were last empty
  emptiedBy,     \* history: what emptied the sets before the last call, if no
                 \* Set or SaturatedIncrement was called since ("none" otherwise)
  log,           \* history: the calls writer threads began since the sets
                 \* were last empty, each with the number of times it was made
  pc,            \* per writer thread: the step it is at
  local,         \* per writer thread: arguments and locals of its call
  nested,        \* a LayeredConcurrentByteSet with a layered Upper or Lower
  ntrap,         \* the last call on nested trapped
  nop,           \* the last call on nested: <<name, first, second argument>>
  ncalls,        \* action calls made by the last call on nested
  nwritten,      \* history: index -> the non-zero value written to it, for the
                 \* bytes written since nested was last empty; a full drain
                 \* keeps it for the state it leads to
  features_,     \* FeatureArray::features_
  num_features_, \* FeatureArray::num_features_
  pushed,        \* history: the features handed to push_back since the last
                 \* clear()
  fcall,         \* the last call of feature.h: <<name, arguments>>
  fresult,       \* the value it returned
  ftrap,         \* it trapped
  fchain,        \* history: the call whose result was the argument of fcall
  cmp_table,     \* a TableOfRecentCompares<T>: [w, insert_index_, table_]
  tinserted,     \* history: the Insert calls made on cmp_table since its
                 \* construction, <<lhs, rhs, number of calls in a row>>
  tcall,         \* the last call on cmp_table: <<name, arguments>>
  tresult,       \* what it returned
  ipc,           \* per thread: where the thread is in Insert on cmp_table
  iregs,         \* per thread: the index and the operands its Insert holds
  mem_cmp_table, \* TablesOfRecentCompares::mem_cmp_table: [insert_index_, table_]
  minserted,     \* history: how many Insert calls each step made on these tables
  i32_cmp_table, \* TablesOfRecentCompares::i32_cmp_table
  i64_cmp_table, \* TablesOfRecentCompares::i64_cmp_table
  dictionary_,   \* ContainerDictionary::dictionary_
  int_dictionary_, \* IntegerDictionary<uint32_t>::dictionary_
  dadded,        \* history: the entries AddEntry was called with, in order
  mcall,         \* the last call on these tables or on the dictionary
  mresult,       \* what it returned
  flags,         \* the values of the command-line flags
  ecall,         \* the call of CreateEnvironmentFromFlags made, if any
  eresult,       \* what it returned, or the failed CHECK
  logging,       \* the descriptors of the process, stdout_file_ and stderr_file_
  lcalls         \* history: the calls made on the logging functions

\* the two byte sets of the same size and their writers
bsvars == <<bytes_, upper_layer_, lower_layer_, trap1, trap2, op, calls1, calls2,
            examined, lastSet, setsOnly, incs, emptiedBy, log, pc, local>>
\* the nested byte set
nvars == <<nested, ntrap, nop, ncalls, nwritten>>

\* the feature array
avars == <<features_, num_features_, pushed>>
\* the calls of the functions of feature.h
fvars == <<fcall, fresult, ftrap, fchain>>

\* the table of recent integer compares
tvars == <<cmp_table, tinserted, tcall, tresult, ipc, iregs>>

\* the table of recently compared buffers
mvars == <<mem_cmp_table, minserted, mcall, mresult>>
\* the container dictionary and the integer tables it reads
dvars == <<i32_cmp_table, i64_cmp_table, dictionary_, int_dictionary_, dadded>>

\* the flags and the environment made from them
evars == <<flags, ecall, eresult>>

\* the logging state
lvars == <<logging, lcalls>>

vars == <<bsvars, nvars, avars, fvars, tvars, mvars, dvars, evars, lvars>>

\* ----------------------------------------------------------------- inputs
\* Number of writer threads.
NumThreads == 2
Threads == 1..NumThreads
\* SaturatedIncrement calls made between two emptyings of the sets.
MaxIncs == 2
\* indices handed to Set and SaturatedIncrement: two bytes of one word, a byte
\* of the next chunk, the last byte, and the first index out of range
Indices == {0, 1, kSizeMultiple, kSize - 1, kSize}
\* values handed to Set
Values == {0, 254}
\* <<from, to>> handed to ForEachNonZeroByte: the full range, parts of it
\* on multiples of 64 * 64 and of 64, empty and reversed ranges, bounds that
\* are no multiple of 64, and bounds beyond kSize
Ranges ==
  {<<0, kSize>>, <<0, 0>>, <<0, kLayeredSizeMultiple>>,
   <<kLayeredSizeMultiple, kSize>>, <<0, kSizeMultiple>>,
   <<kSizeMultiple, kSize>>, <<kLayeredSizeMultiple, 0>>,
   <<kWordSize, kSize>>, <<0, kWordSize>>,
   <<0, kSize + kLayeredSizeMultiple>>,
   <<kSize + kLayeredSizeMultiple, kSize>>,
   <<kSize + kSizeMultiple, 0>>}

NoCall == <<"none", 0, 0>>
IdleLocal == [target |-> "none", idx |-> 0, value |-> 0, counter |-> 0]
Trapped == trap1 \/ trap2

\* the two byte sets of the same size right after the process image is loaded
InitByteSets ==
  /\ bytes_ = ZeroBytes
  /\ upper_layer_ = ZeroBytes
  /\ lower_layer_ = ZeroBytes
  /\ trap1 = FALSE
  /\ trap2 = FALSE
  /\ op = NoCall
  /\ calls1 = <<>>
  /\ calls2 = <<>>
  /\ examined = {}
  /\ lastSet = <<>>
  /\ setsOnly = TRUE
  /\ incs = 0
  /\ emptiedBy = "none"
  /\ log = <<>>
  /\ pc = [t \in Threads |-> "idle"]
  /\ local = [t \in Threads |-> IdleLocal]

\* the nested byte set, of the smallest size, right after loading
InitOneNested ==
  /\ nested = TwoLayer(kLayeredSizeMultiple)
  /\ ntrap = FALSE
  /\ nop = NoCall
  /\ ncalls = <<>>
  /\ nwritten = <<>>

NoFeatureCall == <<"none">>

\* a FeatureArray in zeroed storage, and no call of feature.h made
InitOneArray ==
  /\ features_ = [i \in 0..(kArraySize - 1) |-> <<>>]
  /\ num_features_ = 0
  /\ pushed = <<>>
  /\ fcall = NoFeatureCall
  /\ fresult = <<>>
  /\ ftrap = FALSE
  /\ fchain = NoFeatureCall

\* the registers of a thread that is not in Insert
IdleInsert == [k |-> 0, lhs |-> <<>>, rhs |-> <<>>]

\* the 4-byte table of recent compares, no call made on it
InitOneTable ==
  /\ cmp_table = TORC_New(4)
  /\ tinserted = <<>>
  /\ tcall = NoFeatureCall
  /\ tresult = <<>>
  /\ ipc = [t \in Threads |-> "idle"]
  /\ iregs = [t \in Threads |-> IdleInsert]

\* a TablesOfRecentCompares and a ContainerDictionary after construction
InitOneDictionary ==
  /\ mem_cmp_table = MEM_New
  /\ minserted = <<>>
  /\ i32_cmp_table = TORC_New(4)
  /\ i64_cmp_table = TORC_New(8)
  /\ dictionary_ = <<>>
  /\ int_dictionary_ = <<>>
  /\ dadded = <<>>
  /\ mcall = NoFeatureCall
  /\ mresult = <<>>

\* the flags with some values that pass every CHECK, no environment made
InitOneFlags ==
  /\ flags = [total_shards |-> FromInt(1), first_shard_index |-> FromInt(0),
              num_threads |-> FromInt(1), j |-> FromInt(0), batch_size |-> FromInt(1),
              stop_at |-> InfiniteFuture, stop_after |-> InfiniteDuration,
              binary |-> <<"target">>]
  /\ ecall = NoFeatureCall
  /\ eresult = <<>>

\* the process at its start: no call of the logging functions made
InitOneLogging ==
  /\ logging = LoggingAtStart
  /\ lcalls = <<>>

\* the parts of the state that the calls on one subsystem leave as they are
\* after construction
InitRest == InitOneFlags /\ InitOneLogging

Init ==
  InitByteSets /\ InitOneNested /\ InitOneArray /\ InitOneTable /\ InitOneDictionary
    /\ InitRest

\* what the calls on the two byte sets of the same size leave alone
ByteSetFrame == UNCHANGED <<nvars, avars, fvars, tvars, mvars, dvars, evars, lvars>>

\* ---------------------------------------------------------------- history
\* The last call left both sets empty: clear(), or a drain of the full range.
JustEmptied ==
  \/ op[1] = "clear"
  \/ op = <<"ForEachNonZeroByte", 0, kSize>>

\* The history the next call continues: lastSet, setsOnly and incs describe
\* the calls up to and including a drain that empties the sets, and start
\* afresh with the call after it.
CurLastSet == IF JustEmptied THEN <<>> ELSE lastSet
CurSetsOnly == JustEmptied \/ setsOnly
CurIncs == IF JustEmptied THEN 0 ELSE incs
CurLog == IF JustEmptied THEN <<>> ELSE log
CurEmptiedBy ==
  IF op[1] = "clear" THEN "clear"
  ELSE IF op = <<"ForEachNonZeroByte", 0, kSize>> THEN "drain"
  ELSE emptiedBy

\* ------------------------------------------- single-threaded use (Spec)
\* Each action is one call, made on both byte sets.

Set(idx, value) ==
  /\ ~Trapped
  /\ LET s == CBS_Set(bytes_, kSize, idx, value)
         l == L_Set(upper_layer_, lower_layer_, idx, value)
     IN  /\ bytes_' = s.bytes
         /\ upper_layer_' = l.upper
         /\ lower_layer_' = l.lower
         /\ trap1' = s.trap
         /\ trap2' = l.trap
         /\ lastSet' = IF s.trap \/ ~CurSetsOnly THEN CurLastSet
                       ELSE [i \in DOMAIN CurLastSet \cup {idx} |->
                               IF i = idx THEN value ELSE CurLastSet[i]]
  /\ op' = <<"Set", idx, value>>
  /\ calls1' = <<>>
  /\ calls2' = <<>>
  /\ examined' = {}
  /\ setsOnly' = CurSetsOnly
  /\ incs' = CurIncs
  /\ emptiedBy' = "none"
  /\ UNCHANGED <<log, pc, local>>
  /\ ByteSetFrame

SaturatedIncrement(idx) ==
  /\ ~Trapped
  /\ LET s == CBS_SaturatedIncrement(bytes_, kSize, idx)
         l == L_SaturatedIncrement(upper_layer_, lower_layer_, idx)
     IN  /\ bytes_' = s.bytes
         /\ upper_layer_' = l.upper
         /\ lower_layer_' = l.lower
         /\ trap1' = s.trap
         /\ trap2' = l.trap
         /\ incs' = IF s.trap THEN CurIncs ELSE CurIncs + 1
         /\ setsOnly' = (CurSetsOnly /\ s.trap)
         /\ lastSet' = IF s.trap THEN CurLastSet ELSE <<>>
  /\ op' = <<"SaturatedIncrement", idx, 0>>
  /\ calls1' = <<>>
  /\ calls2' = <<>>
  /\ examined' = {}
  /\ emptiedBy' = "none"
  /\ UNCHANGED <<log, pc, local>>
  /\ ByteSetFrame

Clear ==
  /\ ~Trapped
  /\ bytes_' = CBS_clear(bytes_)
  /\ LET l == L_clear(upper_layer_, lower_layer_)
     IN  /\ upper_layer_' = l.upper
         /\ lower_layer_' = l.lower
  /\ op' = <<"clear", 0, 0>>
  /\ calls1' = <<>>
  /\ calls2' = <<>>
  /\ examined' = {}
  /\ lastSet' = <<>>
  /\ setsOnly' = TRUE
  /\ incs' = 0
  /\ emptiedBy' = CurEmptiedBy
  /\ log' = <<>>
  /\ UNCHANGED <<trap1, trap2, pc, local>>
  /\ ByteSetFrame

ForEachNonZeroByte(from, to) ==
  /\ ~Trapped
  /\ LET s == CBS_ForEachNonZeroByte(bytes_, kSize, from, to)
         l == L_ForEachNonZeroByte(upper_layer_, lower_layer_, from, to)
         keep == s.trap \/ l.trap \/ (from = 0 /\ to = kSize)
     IN  /\ bytes_' = s.bytes
         /\ upper_layer_' = l.upper
         /\ lower_layer_' = l.lower
         /\ trap1' = s.trap
         /\ trap2' = l.trap
         /\ calls1' = s.calls
         /\ calls2' = l.calls
         /\ examined' = l.examined
         /\ setsOnly' = (CurSetsOnly /\ keep)
         /\ lastSet' = IF CurSetsOnly /\ keep THEN CurLastSet ELSE <<>>
  /\ incs' = CurIncs
  /\ emptiedBy' = CurEmptiedBy
  /\ op' = <<"ForEachNonZeroByte", from, to>>
  /\ log' = CurLog
  /\ UNCHANGED <<pc, local>>
  /\ ByteSetFrame

Next ==
  \/ \E idx \in Indices, value \in Values : Set(idx, value)
  \/ \E idx \in Indices : CurIncs < MaxIncs /\ SaturatedIncrement(idx)
  \/ Clear
  \/ \E r \in Ranges : ForEachNonZeroByte(r[1], r[2])

Spec == Init /\ [][Next]_vars

\* ------------------------------- repeated increments (SpecSat)
\* One thread calls SaturatedIncrement on one index at a time, up to
\* MaxSatIncs times, and drains or clears the sets in between.
MaxSatIncs == 300
SatIndices == {10, kSize - 1}

NextSat ==
  \/ \E idx \in SatIndices :
       /\ CurIncs < MaxSatIncs
       /\ DOMAIN bytes_ \subseteq {idx}
       /\ SaturatedIncrement(idx)
  \/ ForEachNonZeroByte(0, kSize)
  \/ Clear

SpecSat == Init /\ [][NextSat]_vars

\* --------------------------------------- concurrent writers (SpecConc)
\* Writer threads call Set and SaturatedIncrement on either set; every
\* relaxed atomic load or store is one step.  clear() and ForEachNonZeroByte
\* run only while no writer is inside a call: the class comment leaves every
\* use other than concurrent writes to external synchronisation.

\* Calls the writers begin between two emptyings of the sets.
MaxCalls == 3
ConcIndices == {0, 1, kSizeMultiple}
ConcValues == {254}
Targets == {"single", "layered"}

Quiescent == \A t \in Threads : pc[t] = "idle"

Logged(l, c) ==
  [d \in DOMAIN l \cup {c} |->
     IF d # c THEN l[d] ELSE IF c \in DOMAIN l THEN l[c] + 1 ELSE 1]
RECURSIVE SumCounts(_, _)
SumCounts(l, D) ==
  IF D = {} THEN 0
  ELSE LET d == CHOOSE e \in D : TRUE IN l[d] + SumCounts(l, D \ {d})
NumLogged(l) == SumCounts(l, DOMAIN l)

\* what every step of a writer leaves alone
WriterFrame ==
  /\ calls1' = <<>>
  /\ calls2' = <<>>
  /\ examined' = {}
  /\ emptiedBy' = "none"
  /\ UNCHANGED <<lastSet, setsOnly, incs>>
  /\ ByteSetFrame

\* Thread t calls Set(idx, value).  On the single-layer set the call is its
\* one store; on the two-layer set the thread passes the check, stores the
\* upper flag and is left before the store to the lower layer.
T_Set(t, target, idx, value) ==
  /\ ~Trapped
  /\ pc[t] = "idle"
  /\ NumLogged(CurLog) < MaxCalls
  /\ log' = Logged(CurLog, <<target, "Set", idx, value>>)
  /\ IF target = "single"
       THEN LET s == CBS_Set(bytes_, kSize, idx, value)
            IN  /\ bytes_' = s.bytes
                /\ trap1' = s.trap
                /\ UNCHANGED <<upper_layer_, lower_layer_, trap2, pc, local>>
       ELSE LET u == L_MarkUpper(upper_layer_, idx)
                trap == L_IndexTraps(idx) \/ u.trap
            IN  /\ upper_layer_' = IF trap THEN upper_layer_ ELSE u.bytes
                /\ trap2' = trap
                /\ pc' = IF trap THEN pc ELSE [pc EXCEPT ![t] = "set_lower"]
                /\ local' = IF trap THEN local
                            ELSE [local EXCEPT ![t] = [target |-> target, idx |-> idx,
                                                       value |-> value, counter |-> 0]]
                /\ UNCHANGED <<bytes_, lower_layer_, trap1>>
  /\ op' = <<"Set", idx, value>>
  /\ WriterFrame

\* lower_layer_.Set(idx, value) of a two-layer Set
T_SetLower(t) ==
  /\ ~Trapped
  /\ pc[t] = "set_lower"
  /\ LET l == CBS_Set(lower_layer_, kSize, local[t].idx, local[t].value)
     IN  /\ lower_layer_' = l.bytes
         /\ trap2' = l.trap
  /\ pc' = [pc EXCEPT ![t] = "idle"]
  /\ local' = [local EXCEPT ![t] = IdleLocal]
  /\ op' = <<"Set.lower", local[t].idx, local[t].value>>
  /\ UNCHANGED <<bytes_, upper_layer_, trap1, log>>
  /\ WriterFrame

\* Thread t calls SaturatedIncrement(idx).  On the single-layer set the thread
\* passes the check and loads the counter; on the two-layer set it passes the
\* check, stores the upper flag and is left before the load.
T_SaturatedIncrement(t, target, idx) ==
  /\ ~Trapped
  /\ pc[t] = "idle"
  /\ NumLogged(CurLog) < MaxCalls
  /\ log' = Logged(CurLog, <<target, "SaturatedIncrement", idx, 0>>)
  /\ IF target = "single"
       THEN LET trap == CBS_IndexTraps(kSize, idx)
            IN  /\ trap1' = trap
                /\ pc' = IF trap THEN pc ELSE [pc EXCEPT ![t] = "store"]
                /\ local' = IF trap THEN local
                            ELSE [local EXCEPT ![t] =
                                    [target |-> target, idx |-> idx, value |-> 0,
                                     counter |-> ByteAt(bytes_, idx)]]
                /\ UNCHANGED <<bytes_, upper_layer_, lower_layer_, trap2>>
       ELSE LET u == L_MarkUpper(upper_layer_, idx)
                trap == L_IndexTraps(idx) \/ u.trap
            IN  /\ upper_layer_' = IF trap THEN upper_layer_ ELSE u.bytes
                /\ trap2' = trap
                /\ pc' = IF trap THEN pc ELSE [pc EXCEPT ![t] = "load"]
                /\ local' = IF trap THEN local
                            ELSE [local EXCEPT ![t] = [target |-> target, idx |-> idx,
                                                       value |-> 0, counter |-> 0]]
                /\ UNCHANGED <<bytes_, lower_layer_, trap1>>
  /\ op' = <<"SaturatedIncrement", idx, 0>>
  /\ WriterFrame

\* the check and the load of lower_layer_.SaturatedIncrement(idx)
T_Load(t) ==
  /\ ~Trapped
  /\ pc[t] = "load"
  /\ LET trap == CBS_IndexTraps(kSize, local[t].idx)
     IN  /\ trap2' = trap
         /\ pc' = IF trap THEN pc ELSE [pc EXCEPT ![t] = "store"]
         /\ local' = IF trap THEN local
                     ELSE [local EXCEPT ![t].counter = ByteAt(lower_layer_, local[t].idx)]
  /\ op' = <<"SaturatedIncrement.load", local[t].idx, 0>>
  /\ UNCHANGED <<bytes_, upper_layer_, lower_layer_, trap1, log>>
  /\ WriterFrame

\* `if (counter != 255) __atomic_store_n(&bytes_[idx], counter + 1, ...)` on
\* bytes_ of the single-layer set or of the lower layer
T_Store(t) ==
  /\ ~Trapped
  /\ pc[t] = "store"
  /\ LET idx == local[t].idx
         counter == local[t].counter
         stored == IncrementedCounter(counter)
     IN  IF ShouldStore(counter)
           THEN /\ IF local[t].target = "single"
                     THEN /\ bytes_' = StoreByte(bytes_, idx, stored)
                          /\ UNCHANGED lower_layer_
                     ELSE /\ lower_layer_' = StoreByte(lower_layer_, idx, stored)
                          /\ UNCHANGED bytes_
                /\ op' = <<"SaturatedIncrement.store", idx, stored>>
           ELSE /\ UNCHANGED <<bytes_, lower_layer_>>
                /\ op' = <<"SaturatedIncrement.skip", idx, counter>>
  /\ pc' = [pc EXCEPT ![t] = "idle"]
  /\ local' = [local EXCEPT ![t] = IdleLocal]
  /\ UNCHANGED <<upper_layer_, trap1, trap2, log>>
  /\ WriterFrame

\* ForEachNonZeroByte(action) on both sets, the writers being outside calls
Q_ForEachNonZeroByte ==
  /\ Quiescent
  /\ ForEachNonZeroByte(0, kSize)

\* clear() on both sets, the writers being outside calls
Q_Clear ==
  /\ Quiescent
  /\ Clear

NextConc ==
  \/ \E t \in Threads, target \in Targets, idx \in ConcIndices, value \in ConcValues :
       T_Set(t, target, idx, value)
  \/ \E t \in Threads : T_SetLower(t)
  \/ \E t \in Threads, target \in Targets, idx \in ConcIndices :
       T_SaturatedIncrement(t, target, idx)
  \/ \E t \in Threads : T_Load(t)
  \/ \E t \in Threads : T_Store(t)
  \/ Q_ForEachNonZeroByte
  \/ Q_Clear

SpecConc == Init /\ [][NextConc]_vars

\* ------------------------------------ nested layered sets (SpecNested)
\* One thread calls Set, clear and ForEachNonZeroByte, on the full range and
\* on parts of it, on a layered byte set whose Upper or Lower is layered
\* itself, or on a TwoLayerConcurrentByteSet of the same size.

\* sizes: the least kSize the static_asserts admit for three layers with
\* ratios of 64, and for an upper and a lower layer of two layers each
kNestedSize == NumUnits * kSizeMultiple * kLayeredSizeMultiple
kDoublyNestedSize == NumUnits * kLayeredSizeMultiple * kLayeredSizeMultiple

\* LayeredConcurrentByteSet<N, TwoLayerConcurrentByteSet<N / 64>>
UpperNested ==
  Layered(kNestedSize, TwoLayer(kNestedSize \div kSizeMultiple), Flat(kNestedSize))
\* LayeredConcurrentByteSet<N, ConcurrentByteSet<N / 4096>,
\*                          TwoLayerConcurrentByteSet<N>>
LowerNested ==
  Layered(kNestedSize, Flat(kNestedSize \div kLayeredSizeMultiple),
          TwoLayer(kNestedSize))
\* LayeredConcurrentByteSet<N, TwoLayerConcurrentByteSet<N / 4096>,
\*                          TwoLayerConcurrentByteSet<N>>
BothNested ==
  Layered(kDoublyNestedSize, TwoLayer(kDoublyNestedSize \div kLayeredSizeMultiple),
          TwoLayer(kDoublyNestedSize))
\* LayeredConcurrentByteSet<N, ConcurrentByteSet<N / 64>,
\*                          TwoLayerConcurrentByteSet<N>>
LowerNested64 ==
  Layered(kNestedSize, Flat(kNestedSize \div kSizeMultiple), TwoLayer(kNestedSize))
\* LayeredConcurrentByteSet<N, LayeredConcurrentByteSet<128,
\*                          ConcurrentByteSet<64>>> for the N of the two sets
\* of Spec
SmallUpperNested ==
  Layered(kSize, Layered(2 * kSizeMultiple, Flat(kSizeMultiple), Flat(2 * kSizeMultiple)),
          Flat(kSize))

NestedSets ==
  {s \in {UpperNested, LowerNested, BothNested, LowerNested64, SmallUpperNested,
          TwoLayer(kNestedSize)} :
     StaticAssertsHold(s)}

\* <<from, to>> handed to ForEachNonZeroByte: the first kSizeMultiple bytes,
\* the bytes after them, ranges on multiples of 64 and of 4096, a range that
\* ends beyond the set, and a range whose from is beyond its to
NestedRanges(s) ==
  {<<0, G_SizeMultiple(s)>>, <<G_SizeMultiple(s), s.size>>, <<0, kSizeMultiple>>,
   <<kSizeMultiple, s.size>>, <<0, kLayeredSizeMultiple>>,
   <<0, s.size + G_SizeMultiple(s)>>, <<G_SizeMultiple(s), 0>>}

\* indices handed to Set: a byte of the first chunk, the first byte of the
\* second 4096, the last byte, and the first index out of range
NestedIndices(s) == {1, kLayeredSizeMultiple, s.size - 1, s.size}
NestedValues == {0, 42}

InitNested ==
  /\ InitByteSets
  /\ InitOneArray
  /\ InitOneTable
  /\ InitOneDictionary
  /\ InitRest
  /\ nested \in NestedSets
  /\ ntrap = FALSE
  /\ nop = NoCall
  /\ ncalls = <<>>
  /\ nwritten = <<>>

\* what the calls on the nested byte set leave alone
NestedFrame == UNCHANGED <<bsvars, avars, fvars, tvars, mvars, dvars, evars, lvars>>

\* the history the next call continues
CurWritten ==
  IF nop[1] = "ForEachNonZeroByte" /\ ~ntrap THEN <<>> ELSE nwritten

N_Set(idx, value) ==
  /\ ~ntrap
  /\ LET r == G_Set(nested, idx, value)
     IN  /\ nested' = r.set
         /\ ntrap' = r.trap
         /\ nwritten' = IF r.trap THEN CurWritten ELSE StoreByte(CurWritten, idx, value)
  /\ nop' = <<"Set", idx, value>>
  /\ ncalls' = <<>>
  /\ NestedFrame

N_Clear ==
  /\ ~ntrap
  /\ nested' = G_clear(nested)
  /\ nop' = <<"clear", 0, 0>>
  /\ ncalls' = <<>>
  /\ nwritten' = <<>>
  /\ UNCHANGED ntrap
  /\ NestedFrame

\* ForEachNonZeroByte(action) with the default from = 0 and to = kSize
N_ForEachNonZeroByte ==
  /\ ~ntrap
  /\ LET r == G_ForEachNonZeroByte(nested, 0, nested.size)
     IN  /\ nested' = r.set
         /\ ntrap' = r.trap
         /\ ncalls' = r.calls
  /\ nop' = <<"ForEachNonZeroByte", 0, nested.size>>
  /\ nwritten' = CurWritten
  /\ NestedFrame

\* ForEachNonZeroByte(action, from, to)
N_ForEachNonZeroByteRange(from, to) ==
  /\ ~ntrap
  /\ LET r == G_ForEachNonZeroByte(nested, from, to)
     IN  /\ nested' = r.set
         /\ ntrap' = r.trap
         /\ ncalls' = r.calls
         /\ nwritten' = IF r.trap THEN CurWritten
                        ELSE [i \in {j \in DOMAIN CurWritten : j < from \/ j >= to} |->
                                CurWritten[i]]
  /\ nop' = <<"ForEachNonZeroByteRange", from, to>>
  /\ NestedFrame

NextNested ==
  \/ \E idx \in NestedIndices(nested), value \in NestedValues : N_Set(idx, value)
  \/ N_Clear
  \/ N_ForEachNonZeroByte
  \/ \E range \in NestedRanges(nested) : N_ForEachNonZeroByteRange(range[1], range[2])

SpecNested == InitNested /\ [][NextNested]_vars

\* ------------------------------------------ the feature array (SpecArray)
\* One thread calls push_back and clear on a FeatureArray<kArraySize>.

\* push_back calls made beyond the capacity between two clear() calls.
MaxDropped == 2
\* features handed to push_back: kNoFeature, a feature of the PC domain and
\* the last feature of the last user domain
ArrayFeatures ==
  {Domain_begin("kUnknown"), Domain_ConvertToMe("kPCs", FromInt(5)),
   NumSub(Domain_begin("kLastDomain"), FromInt(1))}
\* what features_, which has no initialiser, may hold after construction
Indeterminate == {Domain_begin("kUnknown"), NumSub(Pow2(64), FromInt(1))}

InitArray ==
  /\ InitByteSets
  /\ InitOneNested
  /\ InitOneTable
  /\ InitOneDictionary
  /\ InitRest
  /\ features_ \in [0..(kArraySize - 1) -> Indeterminate]
  /\ num_features_ = 0
  /\ pushed = <<>>
  /\ fcall = NoFeatureCall
  /\ fresult = <<>>
  /\ ftrap = FALSE
  /\ fchain = NoFeatureCall

\* what the calls on the feature array leave alone
ArrayFrame == UNCHANGED <<bsvars, nvars, fresult, ftrap, fchain, tvars, mvars, dvars, evars, lvars>>

A_push_back(feature) ==
  /\ Len(pushed) < kArraySize + MaxDropped
  /\ LET r == FA_push_back(features_, num_features_, feature)
     IN  /\ features_' = r.features
         /\ num_features_' = r.num
  /\ pushed' = Append(pushed, feature)
  /\ fcall' = <<"push_back", feature>>
  /\ ArrayFrame

A_clear ==
  /\ LET r == FA_clear(features_, num_features_)
     IN  /\ features_' = r.features
         /\ num_features_' = r.num
  /\ pushed' = <<>>
  /\ fcall' = <<"clear">>
  /\ ArrayFrame

NextArray ==
  \/ \E feature \in ArrayFeatures : A_push_back(feature)
  \/ A_clear

SpecArray == InitArray /\ [][NextArray]_vars

\* ------------------------------- domains and encoders (SpecFeature)
\* One thread calls the conversion functions of feature.h; a call may take
\* the result of the call before it as its feature.

\* 2 ^ 64 - 1, the largest size_t
kMaxUint64 == NumSub(Pow2(64), FromInt(1))

\* numbers handed to ConvertToMe: below, at and above kDomainSize
Numbers ==
  {FromInt(0), FromInt(5), NumSub(Pow2(27), FromInt(1)), Pow2(27),
   NumAdd(Pow2(27), FromInt(5)), Pow2(32), kMaxUint64}

\* features handed to FeatureToDomainId and ConvertPCFeatureToPcIndex: the
\* ends of the first domains, of the last user domain and of the last domain,
\* and features beyond every domain
FeatureInputs ==
  {FromInt(0), NumSub(Pow2(27), FromInt(1)), Pow2(27), NumAdd(Pow2(27), FromInt(5)),
   NumSub(Pow2(28), FromInt(1)), Pow2(28),
   NumSub(Domain_begin("kLastDomain"), FromInt(1)), Domain_begin("kLastDomain"),
   NumSub(Domain_end("kLastDomain"), FromInt(1)), Domain_end("kLastDomain"),
   Pow2(32), kMaxUint64}

\* pc_index handed to Convert8bitCounterToNumber
PcIndices ==
  {FromInt(0), FromInt(1), FromInt(7), NumSub(Pow2(61), FromInt(1)), Pow2(61),
   kMaxUint64}

\* counter_value handed to Convert8bitCounterToNumber: 0 and the ends of the
\* ranges of equal binary logarithm
CounterValues == {0, 1, 2, 3, 4, 7, 8, 15, 16, 31, 32, 63, 64, 127, 128, 255}

\* pc1 and pc2 handed to ConvertPcPairToNumber, and max_pc
PairPcs ==
  {FromInt(0), FromInt(3), FromInt(5), FromInt(9), NumSub(Pow2(32), FromInt(1)),
   Pow2(32)}
MaxPcs == {FromInt(10), Pow2(32), NumAdd(Pow2(32), FromInt(1))}

InitFeature ==
  /\ InitByteSets
  /\ InitOneNested
  /\ InitOneArray
  /\ InitOneTable
  /\ InitOneDictionary
  /\ InitRest

\* what the calls of the conversion functions leave alone
FeatureFrame == UNCHANGED <<bsvars, nvars, avars, tvars, mvars, dvars, evars, lvars>>

F_ConvertToMe(d, number) ==
  /\ ~ftrap
  /\ fcall' = <<"ConvertToMe", d, number>>
  /\ fresult' = Domain_ConvertToMe(d, number)
  /\ fchain' = NoFeatureCall
  /\ UNCHANGED ftrap
  /\ FeatureFrame

F_FeatureToDomainId(feature) ==
  /\ ~ftrap
  /\ fcall' = <<"FeatureToDomainId", feature>>
  /\ fresult' = FeatureToDomainId(feature)
  /\ fchain' = NoFeatureCall
  /\ UNCHANGED ftrap
  /\ FeatureFrame

F_Convert8bitCounterToNumber(pc_index, counter_value) ==
  /\ ~ftrap
  /\ LET r == Convert8bitCounterToNumber(pc_index, counter_value)
     IN  /\ fresult' = r.value
         /\ ftrap' = r.trap
  /\ fcall' = <<"Convert8bitCounterToNumber", pc_index, counter_value>>
  /\ fchain' = NoFeatureCall
  /\ FeatureFrame

\* ConvertPCFeatureToPcIndex(feature); fchain records the ConvertToMe that
\* returned feature, when the call before was one
F_ConvertPCFeatureToPcIndex(feature) ==
  /\ ~ftrap
  /\ LET r == ConvertPCFeatureToPcIndex(feature)
     IN  /\ fresult' = r.value
         /\ ftrap' = r.trap
  /\ fcall' = <<"ConvertPCFeatureToPcIndex", feature>>
  /\ fchain' = IF fcall[1] = "ConvertToMe" /\ fresult = feature
                 THEN fcall ELSE NoFeatureCall
  /\ FeatureFrame

F_ConvertPcPairToNumber(pc1, pc2, max_pc) ==
  /\ ~ftrap
  /\ fcall' = <<"ConvertPcPairToNumber", pc1, pc2, max_pc>>
  /\ fresult' = ConvertPcPairToNumber(pc1, pc2, max_pc)
  /\ fchain' = NoFeatureCall
  /\ UNCHANGED ftrap
  /\ FeatureFrame

\* a and b handed to ABToCmpModDiff and ABToCmpHamming: differences of at most
\* 32, of 33 and more, and operands at the ends of uintptr_t
CmpOperands ==
  {FromInt(0), FromInt(1), FromInt(5), FromInt(32), FromInt(33), FromInt(37),
   Pow2(32), Pow2(63), NumSub(Pow2(64), FromInt(32)), kMaxUint64}

F_ABToCmpModDiff(a, b) ==
  /\ ~ftrap
  /\ fcall' = <<"ABToCmpModDiff", a, b>>
  /\ fresult' = ABToCmpModDiff(a, b)
  /\ fchain' = NoFeatureCall
  /\ UNCHANGED ftrap
  /\ FeatureFrame

F_ABToCmpHamming(a, b) ==
  /\ ~ftrap
  /\ fcall' = <<"ABToCmpHamming", a, b>>
  /\ fresult' = ABToCmpHamming(a, b)
  /\ fchain' = NoFeatureCall
  /\ UNCHANGED ftrap
  /\ FeatureFrame

NextFeature ==
  \/ \E d \in Domains, number \in Numbers : F_ConvertToMe(d, number)
  \/ \E feature \in FeatureInputs : F_FeatureToDomainId(feature)
  \/ \E pc_index \in PcIndices, counter_value \in CounterValues :
       F_Convert8bitCounterToNumber(pc_index, counter_value)
  \/ \E feature \in FeatureInputs \cup {fresult} :
       F_ConvertPCFeatureToPcIndex(feature)
  \/ \E pc1 \in PairPcs, pc2 \in PairPcs, max_pc \in MaxPcs :
       F_ConvertPcPairToNumber(pc1, pc2, max_pc)
  \/ \E a \in CmpOperands, b \in CmpOperands : F_ABToCmpModDiff(a, b)
  \/ \E a \in CmpOperands, b \in CmpOperands : F_ABToCmpHamming(a, b)

SpecFeature == InitFeature /\ [][NextFeature]_vars

\* ----------------------- the table of recent integer compares (SpecTorc)
\* One thread calls Insert and the three lookups on one
\* TableOfRecentCompares<T>, T one of uint8_t, uint16_t, uint32_t, uint64_t.

\* Insert calls made one at a time on the table under test.
MaxInserts == 2

\* the operands handed to Insert: pairs that share the operand 42 on either
\* side, one with the largest value of the type
TorcPairs(w) ==
  {<<FromInt(42), FromInt(99)>>, <<FromInt(7), FromInt(42)>>,
   <<FromInt(42), NumericMax(w)>>}

\* the pair handed to Insert kTableSize times in a row
FillPairs == {<<FromInt(0), FromInt(0)>>}

\* val handed to the lookups
TorcVals == {FromInt(0), FromInt(42), FromInt(99)}

\* <<min, max>> handed to the lookups: the full range of the type (the
\* default arguments) and two ranges that leave out 99 and the largest value
TorcRanges(w) ==
  {<<NumericMin(w), NumericMax(w)>>, <<FromInt(0), FromInt(50)>>,
   <<FromInt(0), FromInt(100)>>}

\* the slots handed to GetRandomSide and drawn by ChooseOffset: the slots
\* SlotsToRead names and the last slot
TorcOffsets(t) == SlotsToRead(t) \cup {TORC_kTableSize(t.w) - 1}

InitTorc ==
  /\ InitByteSets
  /\ InitOneNested
  /\ InitOneArray
  /\ InitOneDictionary
  /\ InitRest
  /\ cmp_table \in {TORC_New(w) : w \in OperandWidths}
  /\ tinserted = <<>>
  /\ tcall = NoFeatureCall
  /\ tresult = <<>>
  /\ ipc = [t \in Threads |-> "idle"]
  /\ iregs = [t \in Threads |-> IdleInsert]

\* what the calls on the table leave alone
TorcFrame == UNCHANGED <<bsvars, nvars, avars, fvars, mvars, dvars, evars, lvars>>

T_Insert(lhs, rhs) ==
  /\ Len(tinserted) < MaxInserts
  /\ cmp_table' = TORC_Insert(cmp_table, lhs, rhs)
  /\ tinserted' = Append(tinserted, <<lhs, rhs, 1>>)
  /\ tcall' = <<"Insert", lhs, rhs>>
  /\ tresult' = <<>>
  /\ UNCHANGED <<ipc, iregs>>
  /\ TorcFrame

\* kTableSize calls of Insert(lhs, rhs) in a row, once, at the start or right
\* after an Insert
T_InsertMany(lhs, rhs) ==
  /\ Len(tinserted) < MaxInserts
  /\ tcall[1] \in {"none", "Insert"}
  /\ \A i \in DOMAIN tinserted : tinserted[i][3] = 1
  /\ cmp_table' = TORC_InsertTimes(cmp_table, lhs, rhs, TORC_kTableSize(cmp_table.w))
  /\ tinserted' = Append(tinserted, <<lhs, rhs, TORC_kTableSize(cmp_table.w)>>)
  /\ tcall' = <<"InsertMany", lhs, rhs>>
  /\ tresult' = <<>>
  /\ UNCHANGED <<ipc, iregs>>
  /\ TorcFrame

T_GetMatchingIntegerDictionaryEntries(val, min, max) ==
  /\ tcall' = <<"GetMatchingIntegerDictionaryEntries", val, min, max>>
  /\ tresult' \in Orderings(GetMatchingIntegerDictionaryEntries(cmp_table, val, min, max))
  /\ UNCHANGED <<cmp_table, tinserted, ipc, iregs>>
  /\ TorcFrame

T_GetRandomSide(coin, idx, min, max) ==
  /\ tcall' = <<"GetRandomSide", coin, idx, min, max>>
  /\ tresult' = TORC_GetRandomSide(cmp_table, coin, idx, min, max)
  /\ UNCHANGED <<cmp_table, tinserted, ipc, iregs>>
  /\ TorcFrame

T_GetRandomTORCEntry(val, random_offset, coin, min, max) ==
  /\ tcall' = <<"GetRandomTORCEntry", val, random_offset, coin, min, max>>
  /\ tresult' = IntegerDictionary_GetRandomTORCEntry(cmp_table, val, random_offset,
                                                     coin, min, max)
  /\ UNCHANGED <<cmp_table, tinserted, ipc, iregs>>
  /\ TorcFrame

NextTorc ==
  \/ \E pair \in TorcPairs(cmp_table.w) : T_Insert(pair[1], pair[2])
  \/ \E pair \in FillPairs : T_InsertMany(pair[1], pair[2])
  \/ \E val \in TorcVals, range \in TorcRanges(cmp_table.w) :
       T_GetMatchingIntegerDictionaryEntries(val, range[1], range[2])
  \/ \E coin \in BOOLEAN, idx \in TorcOffsets(cmp_table),
        range \in TorcRanges(cmp_table.w) :
       T_GetRandomSide(coin, idx, range[1], range[2])
  \/ \E val \in TorcVals, random_offset \in TorcOffsets(cmp_table), coin \in BOOLEAN,
        range \in TorcRanges(cmp_table.w) :
       T_GetRandomTORCEntry(val, random_offset, coin, range[1], range[2])

SpecTorc == InitTorc /\ [][NextTorc]_vars

\* -------------------- the table of recently compared buffers (SpecMem)
\* One thread calls Insert on a TableOfRecentlyComparedBuffers and looks one
\* of its slots up in a container.

\* Insert calls made on the table under test.
MaxMemInserts == 2

\* "PASSWORD", "hunter2=" and two buffers of 130 bytes, 'A's and 'B's
PASSWORD == <<80, 65, 83, 83, 87, 79, 82, 68>>
HUNTER2 == <<104, 117, 110, 116, 101, 114, 50, 61>>
LongA == [i \in 1..130 |-> 65]
LongB == [i \in 1..130 |-> 66]

\* <<buf1, buf2, n>> handed to Insert: n is at most the length of the buffers
MemInserts ==
  {<<PASSWORD, HUNTER2, 8>>, <<PASSWORD, HUNTER2, 0>>, <<HUNTER2, PASSWORD, 4>>,
   <<LongA, LongB, 128>>, <<LongA, LongB, 130>>}

\* the containers looked up, as bytes: "XPASSWORD!", "XXPASSWORD",
\* "XXXXPASSWORD", "PASSWORD", "PASS", "=hunter2=", "PASSWORDhunter2=" and 130
\* 'A's
ContainerBytes ==
  {<<88>> \o PASSWORD \o <<33>>, <<88, 88>> \o PASSWORD, <<88, 88, 88, 88>> \o PASSWORD,
   PASSWORD, SubSeq(PASSWORD, 1, 4), <<61>> \o HUNTER2, PASSWORD \o HUNTER2, LongA}

\* the containers of elements of w bytes among them
Containers(w) == {val \in ContainerBytes : Len(val) % w = 0}

\* the slot that n calls of Insert on a new table write last
RECURSIVE MemCursorAfter(_)
MemCursorAfter(n) == IF n = 0 THEN 0 ELSE MEM_NextIndex(MemCursorAfter(n - 1))

\* the slots looked up: slot 0, which the 128th Insert writes, and the slots
\* that the first single Insert calls write
MemSlots == {MemCursorAfter(n) : n \in 0..MaxMemInserts}

InitMem ==
  /\ InitByteSets
  /\ InitOneNested
  /\ InitOneArray
  /\ InitOneTable
  /\ InitOneDictionary
  /\ InitRest

\* what the calls on the buffer table leave alone
MemFrame == UNCHANGED <<bsvars, nvars, avars, fvars, tvars, dvars, evars, lvars>>

M_Insert(buf1, buf2, n) ==
  /\ Len(minserted) < MaxMemInserts
  /\ mem_cmp_table' = MEM_Insert(mem_cmp_table, buf1, buf2, n)
  /\ minserted' = Append(minserted, 1)
  /\ mcall' = <<"Insert", buf1, buf2, n>>
  /\ mresult' = <<>>
  /\ MemFrame

\* kTableSize calls of Insert("PASSWORD", "hunter2=", 8) in a row, once, at
\* the start or right after an Insert
M_InsertMany ==
  /\ Len(minserted) < MaxMemInserts
  /\ mcall[1] \in {"none", "Insert"}
  /\ \A i \in DOMAIN minserted : minserted[i] = 1
  /\ mem_cmp_table' = MEM_InsertTimes(mem_cmp_table, PASSWORD, HUNTER2, 8, MEM_kTableSize)
  /\ minserted' = Append(minserted, MEM_kTableSize)
  /\ mcall' = <<"InsertMany">>
  /\ mresult' = <<>>
  /\ MemFrame

\* GetMatchingContainerDictionaryEntry on slot idx of the table, as
\* GetMatchingContainerDictionaryEntries calls it, for elements of w bytes
M_GetMatchingContainerDictionaryEntry(w, val, idx) ==
  /\ mcall' = <<"GetMatchingContainerDictionaryEntry", w, val, idx>>
  /\ mresult' = GetMatchingContainerDictionaryEntry(
                  w, val, BufferEntryAt(mem_cmp_table.table_, idx).buf1,
                  BufferEntryAt(mem_cmp_table.table_, idx).buf2,
                  BufferEntryAt(mem_cmp_table.table_, idx).buf_size)
  /\ UNCHANGED <<mem_cmp_table, minserted>>
  /\ MemFrame

NextMem ==
  \/ \E in \in MemInserts : M_Insert(in[1], in[2], in[3])
  \/ M_InsertMany
  \/ \E w \in OperandWidths : \E val \in Containers(w), idx \in MemSlots :
       M_GetMatchingContainerDictionaryEntry(w, val, idx)

SpecMem == InitMem /\ [][NextMem]_vars

\* -------------------------------------- the container dictionary (SpecDict)
\* One thread inserts into the buffer table and the 4-byte and 8-byte integer
\* tables of a TablesOfRecentCompares and calls
\* MatchEntriesFromTableOfRecentCompares on a ContainerDictionary.

\* Insert calls made on the three tables together.
MaxDictInserts == 2

\* the unsigned integer whose bytes in memory are bytes
RECURSIVE IntegerOfBytes(_)
IntegerOfBytes(bytes) ==
  IF bytes = <<>> THEN <<>>
  ELSE NumAdd(FromInt(bytes[1]), NumMul(FromInt(256), IntegerOfBytes(Tail(bytes))))

\* the compared 32-bit operands: "PASS" with "hunt"s
DictPairs32 == {<<IntegerOfBytes(SubSeq(PASSWORD, 1, 4)), IntegerOfBytes(SubSeq(HUNTER2, 1, 4))>>}

\* the compared 64-bit operands: "PASSWORD" with "hunter2=", and "WORD" with
\* "er2=" promoted to 64 bits
DictPairs64 ==
  {<<IntegerOfBytes(PASSWORD), IntegerOfBytes(HUNTER2)>>,
   <<IntegerOfBytes(SubSeq(PASSWORD, 5, 8)), IntegerOfBytes(SubSeq(HUNTER2, 5, 8))>>}

\* the containers matched, as bytes: "PASS", "PASSWORD", "XXXXPASSWORD",
\* "PASSWORDhunter2=", "PASSWORD" eight times, and four zero bytes
DictContainerBytes ==
  {SubSeq(PASSWORD, 1, 4), PASSWORD, <<88, 88, 88, 88>> \o PASSWORD, PASSWORD \o HUNTER2,
   [i \in 1..64 |-> PASSWORD[((i - 1) % 8) + 1]], <<0, 0, 0, 0>>}

DictContainers(w) == {val \in DictContainerBytes : Len(val) % w = 0}

\* the entries handed to ContainerDictionary::AddEntry: "XX" without a
\* position hint, and "hunter2=" at element 0, which a match can derive too
DictEntries ==
  {[position_hint |-> NoHint, value |-> <<88, 88>>],
   [position_hint |-> Some(0), value |-> HUNTER2]}

\* the values handed to IntegerDictionary<uint32_t>::AddEntry: 5, and "hunt",
\* which a match can derive too
DictIntegers == {FromInt(5), IntegerOfBytes(SubSeq(HUNTER2, 1, 4))}

\* val handed to the match of the integer dictionary: "PASS" and 0
DictIntegerVals == {IntegerOfBytes(SubSeq(PASSWORD, 1, 4)), FromInt(0)}

InitDict ==
  /\ InitByteSets
  /\ InitOneNested
  /\ InitOneArray
  /\ InitOneTable
  /\ InitOneDictionary
  /\ InitRest

\* what the calls on the tables and on the dictionary leave alone
DictFrame == UNCHANGED <<bsvars, nvars, avars, fvars, tvars, evars, lvars>>

\* A run calls one of the two dictionaries: the container dictionary while
\* the integer dictionary is as constructed, or the other way round.
ContainerDictionaryUntouched ==
  /\ dictionary_ = <<>>
  /\ \A i \in DOMAIN dadded : dadded[i].dictionary = "integer"
IntegerDictionaryUntouched ==
  /\ int_dictionary_ = <<>>
  /\ \A i \in DOMAIN dadded : dadded[i].dictionary = "container"

\* torc.GetMutable<0>().Insert(buf1, buf2, n)
D_InsertBuffers(buf1, buf2, n) ==
  /\ Len(minserted) + Len(dadded) < MaxDictInserts
  /\ mem_cmp_table' = MEM_Insert(mem_cmp_table, buf1, buf2, n)
  /\ minserted' = Append(minserted, 1)
  /\ mcall' = <<"Insert", buf1, buf2, n>>
  /\ mresult' = <<>>
  /\ UNCHANGED dvars
  /\ DictFrame

\* torc.GetMutable<4>().Insert(lhs, rhs)
D_Insert32(lhs, rhs) ==
  /\ Len(minserted) + Len(dadded) < MaxDictInserts
  /\ i32_cmp_table' = TORC_Insert(i32_cmp_table, lhs, rhs)
  /\ minserted' = Append(minserted, 1)
  /\ mcall' = <<"Insert32", lhs, rhs>>
  /\ mresult' = <<>>
  /\ UNCHANGED <<mem_cmp_table, i64_cmp_table, dictionary_, int_dictionary_, dadded>>
  /\ DictFrame

\* torc.GetMutable<8>().Insert(lhs, rhs)
D_Insert64(lhs, rhs) ==
  /\ Len(minserted) + Len(dadded) < MaxDictInserts
  /\ i64_cmp_table' = TORC_Insert(i64_cmp_table, lhs, rhs)
  /\ minserted' = Append(minserted, 1)
  /\ mcall' = <<"Insert64", lhs, rhs>>
  /\ mresult' = <<>>
  /\ UNCHANGED <<mem_cmp_table, i32_cmp_table, dictionary_, int_dictionary_, dadded>>
  /\ DictFrame

\* ContainerDictionary<ContainerT>::MatchEntriesFromTableOfRecentCompares(val,
\* torc) for a ContainerT of elements of w bytes
D_MatchEntriesFromTableOfRecentCompares(w, val) ==
  /\ IntegerDictionaryUntouched
  /\ \E from_buffers \in Orderings(GetMatchingContainerDictionaryEntries(mem_cmp_table, w, val)) :
       dictionary_' = ContainerDictionary_MatchEntriesFromTableOfRecentCompares(
                        dictionary_, from_buffers, w, val, i32_cmp_table, i64_cmp_table)
  /\ mcall' = <<"MatchEntriesFromTableOfRecentCompares", w, val>>
  /\ mresult' = <<>>
  /\ UNCHANGED <<mem_cmp_table, i32_cmp_table, i64_cmp_table, minserted, int_dictionary_,
                 dadded>>
  /\ DictFrame

\* ContainerDictionary::AddEntry(std::move(val))
D_AddEntry(val) ==
  /\ IntegerDictionaryUntouched
  /\ Len(minserted) + Len(dadded) < MaxDictInserts
  /\ dictionary_' = ContainerDictionary_AddEntry(dictionary_, val)
  /\ dadded' = Append(dadded, [dictionary |-> "container", entry |-> val])
  /\ mcall' = <<"AddEntry", val>>
  /\ mresult' = <<>>
  /\ UNCHANGED <<mem_cmp_table, i32_cmp_table, i64_cmp_table, minserted, int_dictionary_>>
  /\ DictFrame

\* IntegerDictionary<uint32_t>::MatchEntriesFromTableOfRecentCompares(val,
\* torc, min, max)
D_IntegerMatchEntriesFromTableOfRecentCompares(val, min, max) ==
  /\ ContainerDictionaryUntouched
  /\ int_dictionary_' \in IntegerDictionary_MatchEntriesFromTableOfRecentCompares(
                            int_dictionary_, i32_cmp_table, val, min, max)
  /\ mcall' = <<"IntegerMatchEntriesFromTableOfRecentCompares", val, min, max>>
  /\ mresult' = <<>>
  /\ UNCHANGED <<mem_cmp_table, i32_cmp_table, i64_cmp_table, minserted, dictionary_,
                 dadded>>
  /\ DictFrame

\* IntegerDictionary<uint32_t>::AddEntry(val)
D_IntegerAddEntry(val) ==
  /\ ContainerDictionaryUntouched
  /\ Len(minserted) + Len(dadded) < MaxDictInserts
  /\ int_dictionary_' = IntegerDictionary_AddEntry(int_dictionary_, val)
  /\ dadded' = Append(dadded, [dictionary |-> "integer", entry |-> val])
  /\ mcall' = <<"IntegerAddEntry", val>>
  /\ mresult' = <<>>
  /\ UNCHANGED <<mem_cmp_table, i32_cmp_table, i64_cmp_table, minserted, dictionary_>>
  /\ DictFrame

NextDict ==
  \/ D_InsertBuffers(PASSWORD, HUNTER2, 8)
  \/ \E pair \in DictPairs32 : D_Insert32(pair[1], pair[2])
  \/ \E pair \in DictPairs64 : D_Insert64(pair[1], pair[2])
  \/ \E w \in OperandWidths : \E val \in DictContainers(w) :
       D_MatchEntriesFromTableOfRecentCompares(w, val)
  \/ \E val \in DictEntries : D_AddEntry(val)
  \/ \E val \in DictIntegerVals :
       D_IntegerMatchEntriesFromTableOfRecentCompares(val, NumericMin(4), NumericMax(4))
  \/ \E val \in DictIntegers : D_IntegerAddEntry(val)

SpecDict == InitDict /\ [][NextDict]_vars

\* ---------------------------------- the environment flags (SpecFlags)
\* The process starts with some values of the flags, as the command line set
\* them, and calls CreateEnvironmentFromFlags once.

\* the values of the size_t flags: 0, small values, and the largest size_t
ShardCounts == {FromInt(0), FromInt(1), FromInt(2), FromInt(3)}
ShardIndices == {FromInt(0), FromInt(1), FromInt(2), kMaxUint64}
JValues == {FromInt(0), FromInt(1), FromInt(2)}
\* --batch_size is checked to be positive when the flag is set
BatchSizes == {FromInt(1), FromInt(1000)}
StopAtTimes == {InfiniteFuture, FiniteTime(100)}
StopAfterDurations == {InfiniteDuration, FiniteDuration(50)}
Binaries == {<<"target">>, <<"target", "@@">>}
\* what absl::Now() returns
NowTimes == {FiniteTime(10), FiniteTime(20)}

InitFlags ==
  /\ InitByteSets
  /\ InitOneNested
  /\ InitOneArray
  /\ InitOneTable
  /\ InitOneDictionary
  /\ InitOneLogging
  /\ flags \in [total_shards : ShardCounts, first_shard_index : ShardIndices,
                num_threads : ShardCounts, j : JValues, batch_size : BatchSizes,
                stop_at : StopAtTimes, stop_after : StopAfterDurations,
                binary : Binaries]
  /\ ecall = NoFeatureCall
  /\ eresult = <<>>

\* what CreateEnvironmentFromFlags leaves alone
FlagsFrame == UNCHANGED <<bsvars, nvars, avars, fvars, tvars, mvars, dvars, lvars, flags>>

E_CreateEnvironmentFromFlags(now) ==
  /\ ecall = NoFeatureCall
  /\ ecall' = <<"CreateEnvironmentFromFlags", now>>
  /\ eresult' = CreateEnvironmentFromFlags(flags, now)
  /\ FlagsFrame

NextFlags == \E now \in NowTimes : E_CreateEnvironmentFromFlags(now)

SpecFlags == InitFlags /\ [][NextFlags]_vars

\* ------------------------------------------------- logging (SpecLogging)
\* One thread calls SilenceTargetStdoutAndStderr and
\* RestoreTargetStdoutAndStderr in any order, until a check aborts the
\* process.

\* Calls of the two functions made on the process.
MaxLogCalls == 8

InitLogging ==
  /\ InitByteSets
  /\ InitOneNested
  /\ InitOneArray
  /\ InitOneTable
  /\ InitOneDictionary
  /\ InitOneFlags
  /\ InitOneLogging

\* what the logging functions leave alone
LoggingFrame == UNCHANGED <<bsvars, nvars, avars, fvars, tvars, mvars, dvars, evars>>

L_SilenceTargetStdoutAndStderr(emfile) ==
  /\ logging.ok
  /\ Len(lcalls) < MaxLogCalls
  /\ logging' = SilenceTargetStdoutAndStderr(logging, emfile)
  /\ lcalls' = Append(lcalls, "Silence")
  /\ LoggingFrame

L_RestoreTargetStdoutAndStderr ==
  /\ logging.ok
  /\ Len(lcalls) < MaxLogCalls
  /\ logging' = RestoreTargetStdoutAndStderr(logging)
  /\ lcalls' = Append(lcalls, "Restore")
  /\ LoggingFrame

NextLogging ==
  \/ \E emfile \in BOOLEAN : L_SilenceTargetStdoutAndStderr(emfile)
  \/ L_RestoreTargetStdoutAndStderr

SpecLogging == InitLogging /\ [][NextLogging]_vars

\* ------------------------------------------------------------ properties
\* number of times e occurs in seq
Occurrences(seq, e) == Cardinality({k \in 1..Len(seq) : seq[k] = e})

\* seq1 and seq2 hold the same elements the same number of times
SameMultiset(seq1, seq2) ==
  /\ Len(seq1) = Len(seq2)
  /\ \A k \in 1..Len(seq1) : Occurrences(seq1, seq1[k]) = Occurrences(seq2, seq1[k])

FullDrain == <<"ForEachNonZeroByte", 0, kSize>>
IsDrain == op[1] = "ForEachNonZeroByte"

\* C1: on the single-layer set, a full-range drain that follows Set calls only
\* invokes action exactly once with (i, v) for every index i whose last
\* written value v is non-zero and for no other index; a full-range drain
\* made after a full-range drain with no write in between invokes nothing.
C1_DrainReportsLastWrites ==
  /\ (op = FullDrain /\ setsOnly) =>
       /\ \A i \in DOMAIN lastSet :
            lastSet[i] # 0 => Occurrences(calls1, <<i, lastSet[i]>>) = 1
       /\ \A k \in 1..Len(calls1) :
            /\ calls1[k][1] \in DOMAIN lastSet
            /\ calls1[k][2] # 0
            /\ calls1[k][2] = lastSet[calls1[k][1]]
       /\ \A k, m \in 1..Len(calls1) : calls1[k][1] = calls1[m][1] => k = m
  /\ (op = FullDrain /\ emptiedBy = "drain") => calls1 = <<>>

\* C1 witness: a full drain after Sets only, among them a Set of 0, that
\* reported at least two bytes.
C1_Witness ==
  /\ op = FullDrain
  /\ setsOnly
  /\ \E i \in DOMAIN lastSet : lastSet[i] = 0
  /\ Len(calls1) >= 2

Min(a, b) == IF a <= b THEN a ELSE b

\* C3: whatever the interleaving of the writers, every value a
\* SaturatedIncrement stores is in [1, 255], and no step of a
\* SaturatedIncrement takes a byte from 255 to 0.
C3_StoredValueInRange ==
  /\ [](op[1] = "SaturatedIncrement.store" => op[3] \in 1..255)
  /\ [][op'[1] \in {"SaturatedIncrement.store", "SaturatedIncrement.skip"} =>
          \A i \in ConcIndices :
            /\ ByteAt(bytes_, i) = 255 => ByteAt(bytes_', i) # 0
            /\ ByteAt(lower_layer_, i) = 255 => ByteAt(lower_layer_', i) # 0]_vars

\* C3 witness: a SaturatedIncrement stored 255 on the single-layer set while
\* another thread, having loaded 254 from the same byte, is about to store.
C3_Witness ==
  /\ op[1] = "SaturatedIncrement.store" /\ op[3] = 255
  /\ \E t \in Threads :
       /\ pc[t] = "store"
       /\ local[t].target = "single"
       /\ local[t].idx = op[2]
       /\ local[t].counter = 254
       /\ ByteAt(bytes_, op[2]) = 255

\* the Set calls logged for one of the two sets
SetsOf(target) == {c \in DOMAIN log : c[1] = target}

\* every call since the sets were last empty was a Set of a non-zero value,
\* and no two of them on one set had the same index
DistinctSets ==
  \A c \in DOMAIN log :
    /\ c[2] = "Set"
    /\ c[4] # 0
    /\ log[c] = 1
    /\ \A d \in DOMAIN log : (d[1] = c[1] /\ d[3] = c[3]) => d = c

\* calls holds each (idx, value) written to the set once, and nothing else
ReportsExactly(calls, target) ==
  /\ Len(calls) = Cardinality(SetsOf(target))
  /\ \A c \in SetsOf(target) : Occurrences(calls, <<c[3], c[4]>>) = 1

\* C4: after concurrent Set calls with non-zero values to pairwise different
\* indices, in any interleaving, a full-range drain made once all writers
\* have returned reports exactly the written (idx, value) pairs, each once,
\* on the single-layer and on the two-layer set.
C4_ConcurrentSetsAllReported ==
  (op = FullDrain /\ DistinctSets) =>
     /\ ReportsExactly(calls1, "single")
     /\ ReportsExactly(calls2, "layered")

\* C4 witness: a drain reported two Sets made to indices 0 and 1 of the
\* two-layer set, which share an upper flag, and one made to the single-layer
\* set.
C4_Witness ==
  /\ op = FullDrain
  /\ DistinctSets
  /\ {c[3] : c \in SetsOf("layered")} = {0, 1}
  /\ SetsOf("single") # {}
  /\ Len(calls2) = 2 /\ Len(calls1) = 1

\* C5: in every state outside a running drain, the states between the steps
\* of concurrent writers included, a non-zero byte of the lower layer at idx
\* has a non-zero upper byte at idx / R.
C5_UpperCoversLower ==
  \A idx \in DOMAIN lower_layer_ :
    ByteAt(lower_layer_, idx) # 0 => ByteAt(upper_layer_, idx \div kLayerRatio) # 0

\* C5 witness: a writer has stored its upper flag and not yet its lower byte
\* while another byte of the lower layer is non-zero.
C5_Witness ==
  \E t \in Threads :
    /\ pc[t] = "set_lower"
    /\ ByteAt(lower_layer_, local[t].idx) = 0
    /\ ByteAt(upper_layer_, local[t].idx \div kLayerRatio) # 0
    /\ lower_layer_ # ZeroBytes

\* C6: k SaturatedIncrement(i) calls on a zero byte leave it at min(k, 255),
\* on the single-layer set and in the lower layer, and the drain that follows
\* reports exactly (i, min(k, 255)).
C6_SaturatedCount ==
  /\ [](op[1] = "SaturatedIncrement" /\ ~Trapped =>
          /\ ByteAt(bytes_, op[2]) = Min(incs, 255)
          /\ ByteAt(lower_layer_, op[2]) = Min(incs, 255))
  /\ [][op[1] = "SaturatedIncrement" /\ op' = FullDrain =>
          /\ calls1' = << <<op[2], Min(incs, 255)>> >>
          /\ calls2' = calls1']_vars

\* C6 witness: the drain after 300 increments of index 10 reported (10, 255).
C6_Witness ==
  /\ op = FullDrain
  /\ incs = 300
  /\ calls1 = << <<10, 255>> >>

\* a from or to that is no multiple of 64 or lies outside [0, kSize]
BadRange(from, to) ==
  \/ from % kSizeMultiple # 0
  \/ to % kSizeMultiple # 0
  \/ from > kSize
  \/ to > kSize

\* C7: ForEachNonZeroByte traps on every call whose from or to is no multiple
\* of 64 or lies outside [0, kSize], a from greater than kSize included, and it
\* then invokes action zero times and changes no byte.
C7_BadRangeTraps ==
  /\ [](IsDrain /\ BadRange(op[2], op[3]) =>
          trap1 /\ trap2 /\ calls1 = <<>> /\ calls2 = <<>>)
  /\ [][op'[1] = "ForEachNonZeroByte" /\ BadRange(op'[2], op'[3]) =>
          UNCHANGED <<bytes_, upper_layer_, lower_layer_>>]_vars

SameOutside(a, b, from, to) ==
  \A i \in (DOMAIN a \cup DOMAIN b) \ (from..(to - 1)) : ByteAt(a, i) = ByteAt(b, i)

\* every byte of a in [from, to) is zero
ZeroInside(a, from, to) == DOMAIN a \cap (from..(to - 1)) = {}

\* C9: a ForEachNonZeroByte(action, from, to) that does not trap leaves every
\* byte in [from, to) zero and every byte outside it unchanged; on the
\* two-layer set this holds of the lower layer, and the upper flags outside
\* [from / R, to / R) are unchanged.
C9_DrainFrame ==
  [][op'[1] = "ForEachNonZeroByte" =>
       /\ ~trap1' =>
            /\ ZeroInside(bytes_', op'[2], op'[3])
            /\ SameOutside(bytes_', bytes_, op'[2], op'[3])
       /\ ~trap2' =>
            /\ ZeroInside(lower_layer_', op'[2], op'[3])
            /\ SameOutside(lower_layer_', lower_layer_, op'[2], op'[3])
            /\ SameOutside(upper_layer_', upper_layer_,
                           op'[2] \div kLayerRatio, op'[3] \div kLayerRatio)]_vars

\* C9 witness: a drain of the first 4096 bytes reported bytes on both sets and
\* left bytes behind in both.
C9_Witness ==
  /\ op = <<"ForEachNonZeroByte", 0, kLayeredSizeMultiple>>
  /\ ~trap1 /\ ~trap2
  /\ calls1 # <<>> /\ calls2 # <<>>
  /\ bytes_ # ZeroBytes /\ lower_layer_ # ZeroBytes /\ upper_layer_ # ZeroBytes

\* C10: after clear(), with no write since, a ForEachNonZeroByte over any
\* range it accepts invokes action zero times, on either set.
C10_DrainAfterClearIsSilent ==
  (IsDrain /\ emptiedBy = "clear") => (calls1 = <<>> /\ calls2 = <<>>)

\* C10 witness: a full-range drain made right after a clear().
C10_Witness ==
  /\ op = FullDrain
  /\ emptiedBy = "clear"
  /\ ~trap1 /\ ~trap2

\* the range [lower_from, lower_to) of the lower layer that upper byte j
\* stands for
ChunkOf(j) == <<j * kLayerRatio, (j + 1) * kLayerRatio>>

\* the upper bytes in [from / R, to / R) that are non-zero
FlaggedIn(upper, from, to) ==
  {j \in DOMAIN upper : from \div kLayerRatio <= j /\ j < to \div kLayerRatio}

\* C11 as stated: a two-layer ForEachNonZeroByte runs the lower drain only on
\* chunks of R bytes that hold a non-zero byte at the moment of the call.
C11_ExaminesOnlyNonZeroChunks ==
  [][op'[1] = "ForEachNonZeroByte" =>
       \A c \in examined' :
         \E i \in DOMAIN lower_layer_ : c[1] <= i /\ i < c[2]]_vars

\* C11 amended: a two-layer ForEachNonZeroByte over an accepted range runs the
\* lower drain on exactly the chunks of the range whose upper flag is non-zero
\* at the moment of the call; these include every chunk of the range that
\* holds a non-zero byte, and also chunks whose bytes are all zero (written
\* with Set(idx, 0) since their flag was last drained).
C11_ExaminesFlaggedChunks ==
  [][(op'[1] = "ForEachNonZeroByte" /\ ~L_RangeTraps(op'[2], op'[3])) =>
       /\ examined' = {ChunkOf(j) : j \in FlaggedIn(upper_layer_, op'[2], op'[3])}
       /\ \A i \in DOMAIN lower_layer_ :
            (op'[2] <= i /\ i < op'[3]) => ChunkOf(i \div kLayerRatio) \in examined']_vars

\* C11 witness: a full drain examined the chunks [0, 64) and [64, 128) only,
\* and reported the one non-zero byte, of the second; the first held zeros.
C11_Witness ==
  /\ op = FullDrain
  /\ examined = {ChunkOf(0), ChunkOf(1)}
  /\ calls2 = << <<kSizeMultiple, 254>> >>

\* every layered level has kLayerRatio = Lower::kSizeMultiple
RECURSIVE RatiosMatch(_)
RatiosMatch(s) ==
  IF s.kind = "flat" THEN TRUE
  ELSE /\ G_LayerRatio(s) = G_SizeMultiple(s.lower)
       /\ RatiosMatch(s.upper)
       /\ RatiosMatch(s.lower)

\* every layer has a size that is a multiple of 64
RECURSIVE SizesAreMultiplesOf64(_)
SizesAreMultiplesOf64(s) ==
  /\ s.size % 64 = 0
  /\ s.kind = "layered" => SizesAreMultiplesOf64(s.upper) /\ SizesAreMultiplesOf64(s.lower)

\* Set of an index in range does not trap, and the full-range drain that
\* follows Sets of non-zero bytes does not trap and reports each non-zero byte
\* written once and nothing else
NestedSetAndDrainWork ==
  /\ (nop[1] = "Set" /\ nop[2] < nested.size) => ~ntrap
  /\ (nop[1] = "ForEachNonZeroByte" /\ nwritten # <<>>) =>
       /\ ~ntrap
       /\ Len(ncalls) = Cardinality(DOMAIN nwritten)
       /\ \A i \in DOMAIN nwritten : Occurrences(ncalls, <<i, nwritten[i]>>) = 1

\* C12 as stated: a layered byte set with a layered Upper or Lower, every
\* layer size a multiple of 64, supports Set and then a full-range
\* ForEachNonZeroByte without a trap and reports exactly the non-zero bytes
\* written.
C12_NestedSupportsSetThenDrain ==
  SizesAreMultiplesOf64(nested) => NestedSetAndDrainWork

\* C12 amended: the same, for the nested byte sets in which every layered
\* level has kLayerRatio equal to the kSizeMultiple of its lower layer.
C12_ProportionedNestedSupportsSetThenDrain ==
  (SizesAreMultiplesOf64(nested) /\ RatiosMatch(nested)) => NestedSetAndDrainWork

\* C12 witness: the byte set with a two-layer Upper and a two-layer Lower
\* reported two bytes, the last one of the set among them.
C12_Witness ==
  /\ nested.size = kDoublyNestedSize
  /\ nop[1] = "ForEachNonZeroByte"
  /\ ~ntrap
  /\ Len(ncalls) = 2
  /\ \E k \in 1..2 : ncalls[k] = <<kDoublyNestedSize - 1, 42>>

\* every call begun since the sets were last empty is a SaturatedIncrement
OnlyIncrements(l) == \A c \in DOMAIN l : c[2] = "SaturatedIncrement"

\* the step is one of a SaturatedIncrement call
IncrementStep(o) ==
  o[1] \in {"SaturatedIncrement", "SaturatedIncrement.load",
            "SaturatedIncrement.store", "SaturatedIncrement.skip"}

\* the byte that the SaturatedIncrement of thread t is about
TargetByte(single, lower, t) ==
  IF local[t].target = "single" THEN ByteAt(single, local[t].idx)
  ELSE ByteAt(lower, local[t].idx)

\* C13 as stated: under concurrent SaturatedIncrement calls, with no Set,
\* clear or drain in between, no step lowers a counter.
C13_CounterNeverDecreases ==
  [][(IncrementStep(op') /\ OnlyIncrements(log')) =>
       \A i \in ConcIndices :
         /\ ByteAt(bytes_', i) >= ByteAt(bytes_, i)
         /\ ByteAt(lower_layer_', i) >= ByteAt(lower_layer_, i)]_vars

\* C13 amended: under concurrent SaturatedIncrement calls, with no Set, clear
\* or drain in between, the last step of a call that loaded 255 leaves the
\* counter as it is, and that of any other call stores the value the call
\* loaded plus one; it does not lower the counter when the counter still has
\* the value the call loaded, and it never takes a non-zero counter to zero.
\* (A call that stores after other calls have stored can lower the counter.)
C13_StoreFollowsLoadedCounter ==
  [][\A t \in Threads :
       (pc[t] = "store" /\ pc'[t] = "idle" /\ OnlyIncrements(log)) =>
         LET cur == TargetByte(bytes_, lower_layer_, t)
             new == TargetByte(bytes_', lower_layer_', t)
         IN  /\ new = IF local[t].counter = 255 THEN cur ELSE local[t].counter + 1
             /\ cur = local[t].counter => new >= cur
             /\ cur # 0 => new # 0]_vars

\* C13 witness: only SaturatedIncrement calls were made, the counter of the
\* single-layer set stands at 2, and a thread that loaded 0 is about to store.
C13_Witness ==
  /\ OnlyIncrements(log)
  /\ IncrementStep(op)
  /\ \E t \in Threads :
       /\ pc[t] = "store"
       /\ local[t].target = "single"
       /\ local[t].counter = 0
       /\ ByteAt(bytes_, local[t].idx) = 2

\* C14: after any push_back and clear calls on a FeatureArray of capacity
\* kArraySize, size() <= kArraySize and data()[0..size()) are the first
\* min(k, kArraySize) of the k features pushed since the last clear, in push
\* order; a push_back at size() = kArraySize changes neither the size nor a
\* stored element.
C14_ArrayHoldsFirstPushes ==
  /\ [](/\ FA_size(features_, num_features_) <= kArraySize
        /\ FA_size(features_, num_features_) = Min(Len(pushed), kArraySize)
        /\ \A i \in 0..(FA_size(features_, num_features_) - 1) :
             FA_data(features_, i) = pushed[i + 1])
  /\ [][(fcall'[1] = "push_back" /\ FA_size(features_, num_features_) = kArraySize) =>
          /\ FA_size(features_', num_features_') = FA_size(features_, num_features_)
          /\ \A i \in 0..(kArraySize - 1) :
               FA_data(features_', i) = FA_data(features_, i)]_vars

\* C14 witness: a push_back on the full array dropped a feature that differs
\* from the last one stored.
C14_Witness ==
  /\ fcall[1] = "push_back"
  /\ num_features_ = kArraySize
  /\ Len(pushed) > kArraySize
  /\ fcall[2] # FA_data(features_, kArraySize - 1)

\* the ids of the domains as the canonical assignment lists them
CanonicalIds ==
  /\ domain_id("kUnknown") = 0
  /\ domain_id("kPCs") = 1
  /\ domain_id("k8bitCounters") = 2
  /\ domain_id("kDataFlow") = 3
  /\ domain_id("kCMP") = 4
  /\ domain_id("kCMPEq") = 5
  /\ domain_id("kCMPModDiff") = 6
  /\ domain_id("kCMPHamming") = 7
  /\ domain_id("kCMPDiffLog") = 8
  /\ domain_id("kCallStack") = 9
  /\ domain_id("kBoundedPath") = 10
  /\ domain_id("kPCPair") = 11
  /\ domain_id("kUserDomains[0]") = 12
  /\ domain_id("kUserDomains[15]") = 27
  /\ {domain_id(d) : d \in {e \in Domains : e \notin {"kUnknown", "kPCs",
        "k8bitCounters", "kDataFlow", "kCMP", "kCMPEq", "kCMPModDiff",
        "kCMPHamming", "kCMPDiffLog", "kCallStack", "kBoundedPath", "kPCPair",
        "kLastDomain"}}} = 12..27
  /\ domain_id("kLastDomain") = 28
  /\ kNumDomains = 28

\* id * 2 ^ 27
IntervalBegin(id) == NumMul(FromInt(id), Pow2(27))

\* C15: the domain ids are dense and fixed, unknown = 0 up to pc_pair = 11,
\* the 16 user domains 12..27 and the last domain 28; the intervals
\* [id * 2^27, (id + 1) * 2^27) are those of the domains and pairwise
\* disjoint, a feature below 28 * 2^27 lies in exactly one of them (that of
\* the id FeatureToDomainId returns), and the last domain begins at or below
\* 2^32.
C15_DomainIdsDenseAndDisjoint ==
  fcall[1] = "FeatureToDomainId" =>
    /\ CanonicalIds
    /\ \A d \in Domains :
         /\ Domain_begin(d) = IntervalBegin(domain_id(d))
         /\ Domain_end(d) = IntervalBegin(domain_id(d) + 1)
    /\ \A d1, d2 \in Domains :
         d1 # d2 => \/ NumLeq(Domain_end(d1), Domain_begin(d2))
                    \/ NumLeq(Domain_end(d2), Domain_begin(d1))
    /\ NumLess(fcall[2], IntervalBegin(28)) =>
         /\ Cardinality({d \in Domains : Domain_Contains(d, fcall[2])}) = 1
         /\ \A d \in Domains :
              Domain_Contains(d, fcall[2]) => FromInt(domain_id(d)) = fresult
    /\ NumLeq(Domain_begin("kLastDomain"), Pow2(32))

\* C15 witness: FeatureToDomainId of the feature 28 * 2^27 - 1 returned 27.
C15_Witness ==
  /\ fcall = <<"FeatureToDomainId", NumSub(IntervalBegin(28), FromInt(1))>>
  /\ fresult = FromInt(27)

\* C16: for every domain d and every number n, f = d.ConvertToMe(n) is
\* contained in d, FeatureToDomainId(f) is the id of d and
\* FeatureToIndexInDomain(f) is n mod 2^27, the r < 2^27 with
\* n = (n div 2^27) * 2^27 + r.
C16_ConvertToMeLandsInDomain ==
  fcall[1] = "ConvertToMe" =>
    LET d == fcall[2]
        n == fcall[3]
        r == FeatureToIndexInDomain(fresult)
    IN  /\ Domain_Contains(d, fresult)
        /\ FeatureToDomainId(fresult) = FromInt(domain_id(d))
        /\ NumLess(r, Pow2(27))
        /\ n = NumAdd(NumMul(DivPow27(n), Pow2(27)), r)

\* C16 witness: the last user domain converted 2^64 - 1 to its last feature.
C16_Witness ==
  /\ fcall = <<"ConvertToMe", "kUserDomains[15]", kMaxUint64>>
  /\ fresult = NumSub(IntervalBegin(28), FromInt(1))

\* C17: for idx < 2^27, ConvertPCFeatureToPcIndex(kPCs.ConvertToMe(idx)) = idx.
C17_PcFeatureRoundTrip ==
  (/\ fcall[1] = "ConvertPCFeatureToPcIndex"
   /\ fchain[1] = "ConvertToMe"
   /\ fchain[2] = "kPCs"
   /\ NumLess(fchain[3], Pow2(27))) =>
     (~ftrap /\ fresult = fchain[3])

\* C17 witness: the round trip of the largest index, 2^27 - 1.
C17_Witness ==
  /\ fcall[1] = "ConvertPCFeatureToPcIndex"
  /\ fchain = <<"ConvertToMe", "kPCs", NumSub(Pow2(27), FromInt(1))>>
  /\ fresult = NumSub(Pow2(27), FromInt(1))

\* C18: Convert8bitCounterToNumber traps for counter_value = 0, and
\* ConvertPCFeatureToPcIndex traps for every feature outside
\* [kPCs.begin(), kPCs.end()).
C18_EncodersTrap ==
  /\ (fcall[1] = "Convert8bitCounterToNumber" /\ fcall[3] = 0) => ftrap
  /\ (/\ fcall[1] = "ConvertPCFeatureToPcIndex"
      /\ \/ NumLess(fcall[2], Domain_begin("kPCs"))
         \/ NumLeq(Domain_end("kPCs"), fcall[2])) => ftrap

\* C18 witness: ConvertPCFeatureToPcIndex trapped on the first feature after
\* the PC domain.
C18_Witness ==
  /\ fcall = <<"ConvertPCFeatureToPcIndex", Domain_end("kPCs")>>
  /\ ftrap

\* floor(log2(v)) for v in 1..255
FloorLog2(v) == CHOOSE b \in 0..7 : 2 ^ b <= v /\ v < 2 ^ (b + 1)

\* the ranges of counter values that share an output, in ascending order
CounterBuckets == <<1..1, 2..3, 4..7, 8..15, 16..31, 32..63, 64..127, 128..255>>

\* 8 * p + b, not reduced to 64 bits
EightTimesPlus(p, b) == NumAdd(NumMul(FromInt(8), p), FromInt(b))

\* what C19 says of the last call, a Convert8bitCounterToNumber(p, v) with v
\* in 1..255, when the claim is made of the pc_index values in P
CounterEncodingOn(P) ==
  (/\ fcall[1] = "Convert8bitCounterToNumber"
   /\ fcall[3] \in 1..255
   /\ fcall[2] \in P) =>
     LET p == fcall[2]
         v == fcall[3]
     IN  /\ ~ftrap
         /\ fresult = EightTimesPlus(p, FloorLog2(v))
         /\ v \in CounterBuckets[FloorLog2(v) + 1]
         /\ {Convert8bitCounterToNumber(p, w).value : w \in 1..255}
              = {EightTimesPlus(p, b) : b \in 0..7}
         /\ \A q \in P \ {p}, w \in CounterValues \ {0} :
              Convert8bitCounterToNumber(q, w).value # fresult

\* C19 as stated: for every pc_index p and v in 1..255,
\* Convert8bitCounterToNumber(p, v) = 8 * p + floor(log2(v)); the outputs for
\* one p are the 8 values 8p..8p+7, one for each of the ranges 1, 2-3, 4-7,
\* 8-15, 16-31, 32-63, 64-127, 128-255, and outputs of different p differ.
C19_CounterEncoding == CounterEncodingOn(PcIndices)

\* C19 amended: the same for every pc_index p < 2^61, where 8 * p + 7 fits
\* the 64 bits of size_t.
C19_CounterEncodingBelowOverflow ==
  CounterEncodingOn({p \in PcIndices : NumLess(p, Pow2(61))})

\* C19 witness: pc_index 2^61 - 1 with counter 255 gave 2^64 - 1.
C19_Witness ==
  /\ fcall = <<"Convert8bitCounterToNumber", NumSub(Pow2(61), FromInt(1)), 255>>
  /\ fresult = kMaxUint64

\* what C20 says beyond the formula of the last call, a
\* ConvertPcPairToNumber(pc1, pc2, max_pc) with pc1, pc2 < max_pc: the number
\* is below max_pc^2 and no other ordered pair below max_pc has it
PairEncodingInjective ==
  LET pc1 == fcall[2]
      pc2 == fcall[3]
      max_pc == fcall[4]
  IN  /\ NumLess(fresult, NumMul(max_pc, max_pc))
      /\ \A a, b \in PairPcs :
           (NumLess(a, max_pc) /\ NumLess(b, max_pc) /\ <<a, b>> # <<pc1, pc2>>) =>
             ConvertPcPairToNumber(a, b, max_pc) # fresult

\* C20 as stated: ConvertPcPairToNumber(pc1, pc2, max_pc) = pc1 * max_pc + pc2;
\* for pc1, pc2 < max_pc two different ordered pairs have different numbers,
\* all below max_pc^2.
C20_PairEncoding ==
  fcall[1] = "ConvertPcPairToNumber" =>
    /\ fresult = NumAdd(NumMul(fcall[2], fcall[4]), fcall[3])
    /\ (NumLess(fcall[2], fcall[4]) /\ NumLess(fcall[3], fcall[4])) =>
         PairEncodingInjective

\* C20 amended: ConvertPcPairToNumber(pc1, pc2, max_pc) is pc1 * max_pc + pc2
\* reduced modulo 2^64; for pc1, pc2 < max_pc <= 2^32 it is pc1 * max_pc + pc2
\* itself, two different ordered pairs have different numbers, and all are
\* below max_pc^2.
C20_PairEncodingBelowOverflow ==
  fcall[1] = "ConvertPcPairToNumber" =>
    /\ fresult = ToUint64(NumAdd(NumMul(fcall[2], fcall[4]), fcall[3]))
    /\ (/\ NumLess(fcall[2], fcall[4])
        /\ NumLess(fcall[3], fcall[4])
        /\ NumLeq(fcall[4], Pow2(32))) =>
         /\ fresult = NumAdd(NumMul(fcall[2], fcall[4]), fcall[3])
         /\ PairEncodingInjective

\* C20 witness: the pair (2^32 - 1, 2^32 - 1) with max_pc = 2^32 gave 2^64 - 1.
C20_Witness ==
  /\ fcall = <<"ConvertPcPairToNumber", NumSub(Pow2(32), FromInt(1)),
               NumSub(Pow2(32), FromInt(1)), Pow2(32)>>
  /\ fresult = kMaxUint64

\* a = b + k on the 64 bits of uintptr_t
IsSumOf(a, b, k) == a = ToUint64(NumAdd(b, FromInt(k)))

\* C21: for all word-sized a and b, ABToCmpModDiff(a, b) is k when a is b + k
\* (mod 2^64) for a k in 0..32, else 32 + k when b is a + k (mod 2^64) for a
\* k in 1..31, else 0; the result is always below 64.
C21_ModDiffBuckets ==
  fcall[1] = "ABToCmpModDiff" =>
    LET a == fcall[2]
        b == fcall[3]
    IN  /\ NumLess(fresult, FromInt(64))
        /\ \A k \in 0..32 : IsSumOf(a, b, k) => fresult = FromInt(k)
        /\ \A k \in 1..31 : IsSumOf(b, a, k) => fresult = FromInt(32 + k)
        /\ (/\ \A k \in 0..32 : ~IsSumOf(a, b, k)
            /\ \A k \in 1..31 : ~IsSumOf(b, a, k)) => fresult = <<>>

\* a is 5 below b, so a - b wraps to 2^64 - 5: the result is 32 + 5
C21_Witness ==
  /\ fcall = <<"ABToCmpModDiff", FromInt(0), FromInt(5)>>
  /\ fresult = FromInt(37)

\* the bit positions at which a and b differ
DifferingBits(a, b) == {i \in 0..63 : Bit(a, i) # Bit(b, i)}

\* C22: for all word-sized a # b, ABToCmpHamming(a, b) is the number of bit
\* positions at which a and b differ, minus one, and lies in [0, 63].
C22_HammingBuckets ==
  (fcall[1] = "ABToCmpHamming" /\ fcall[2] # fcall[3]) =>
    /\ fresult = FromInt(Cardinality(DifferingBits(fcall[2], fcall[3])) - 1)
    /\ NumLeq(fresult, FromInt(63))

\* a and b differ at all 64 bits: the result is 63
C22_Witness ==
  /\ fcall = <<"ABToCmpHamming", FromInt(0), kMaxUint64>>
  /\ fresult = FromInt(63)

\* k_n of the recurrence k_0 = 0, k_n = (37 * k_(n-1) + 89) mod T
RECURSIVE CursorAfter(_, _)
CursorAfter(n, T) == IF n = 0 THEN 0 ELSE (37 * CursorAfter(n - 1, T) + 89) % T

\* the Insert calls were made one at a time
OneAtATime == \A i \in DOMAIN tinserted : tinserted[i][3] = 1

\* C23: for every operand width w in {1, 2, 4, 8} the table has T = 4096 / w
\* slots and its n-th Insert stores the pair at slot k_n, where k_0 = 0 and
\* k_n = (37 * k_(n-1) + 89) mod T.
C23_InsertCursor ==
  (tcall[1] = "Insert" /\ OneAtATime) =>
    LET k == CursorAfter(Len(tinserted), 4096 \div cmp_table.w)
    IN  /\ cmp_table.insert_index_ = k
        /\ EntryAt(cmp_table.table_, k) = [lhs |-> tcall[2], rhs |-> tcall[3]]

\* the elements of a sequence
Elements(seq) == {seq[i] : i \in DOMAIN seq}

IsMatchCall == tcall[1] = "GetMatchingIntegerDictionaryEntries"

\* the operands b such that some slot of t holds (val, b) or (b, val) and
\* min <= b <= max
OtherSides(t, val, min, max) ==
  LET Slots == 0..(TORC_kTableSize(t.w) - 1)
      Operands == UNION {{EntryAt(t.table_, i).lhs, EntryAt(t.table_, i).rhs} : i \in Slots}
  IN  {b \in Operands :
         /\ \E i \in Slots :
              \/ EntryAt(t.table_, i) = [lhs |-> val, rhs |-> b]
              \/ EntryAt(t.table_, i) = [lhs |-> b, rhs |-> val]
         /\ NumLeq(min, b)
         /\ NumLeq(b, max)}

\* C24: in any state of the table, GetMatchingIntegerDictionaryEntries(val,
\* min, max) returns exactly the operands b such that some slot holds (val, b)
\* or (b, val) and min <= b <= max; with the full range of the type (the
\* default arguments) these are all the operands some slot pairs with val.
C24_MatchReturnsOtherSides ==
  IsMatchCall =>
    /\ Elements(tresult) = OtherSides(cmp_table, tcall[2], tcall[3], tcall[4])
    /\ (tcall[3] = NumericMin(cmp_table.w) /\ tcall[4] = NumericMax(cmp_table.w)) =>
         Elements(tresult) = OtherSides(cmp_table, tcall[2], <<>>, Pow2(64))

\* (42, 99) and (7, 42) are in the table and 42 is looked up in [0, 50]: 99 is
\* out of range, 7 is returned
C24_Witness ==
  /\ tcall = <<"GetMatchingIntegerDictionaryEntries", FromInt(42), FromInt(0), FromInt(50)>>
  /\ Len(tinserted) = 2
  /\ tresult = <<FromInt(7)>>

\* the table after the Insert calls of the sequence inserted, made on t
RECURSIVE Replay(_, _)
Replay(t, inserted) ==
  IF inserted = <<>> \/ t.insert_index_ < 0 THEN t
  ELSE Replay(TORC_InsertTimes(t, inserted[1][1], inserted[1][2], inserted[1][3]),
              Tail(inserted))

\* the number of Insert calls of the sequence inserted
RECURSIVE NumInserts(_)
NumInserts(inserted) ==
  IF inserted = <<>> THEN 0 ELSE inserted[1][3] + NumInserts(Tail(inserted))

\* no value occurs twice in the result, and the result, as a set, is what the
\* same lookup returns after the same Insert calls made in any other order
OrderIndependent ==
  /\ \A i, j \in DOMAIN tresult : tresult[i] = tresult[j] => i = j
  /\ \A other \in Orderings(tinserted) :
       Elements(GetMatchingIntegerDictionaryEntries(
                  Replay(TORC_New(cmp_table.w), other), tcall[2], tcall[3], tcall[4]))
         = Elements(tresult)

\* C25 as stated: the result of a lookup has no value twice and is, as a set,
\* the same for every order in which the same pairs were inserted.
C25_MatchOrderIndependent == IsMatchCall => OrderIndependent

\* C25 as amended: the same, for at most as many Insert calls as the cursor
\* has slots to visit (kValueMask + 1), so that no Insert overwrites the pair
\* of an earlier one.
C25_MatchOrderIndependentWithoutOverwrite ==
  (IsMatchCall /\ NumInserts(tinserted) <= TORC_kValueMask(cmp_table.w) + 1) =>
    OrderIndependent

\* (42, 99) and (7, 42) were inserted in this order, and the lookup of 42
\* returns both 99 and 7
C25_Witness ==
  /\ IsMatchCall
  /\ tinserted = <<<<FromInt(42), FromInt(99), 1>>, <<FromInt(7), FromInt(42), 1>>>>
  /\ Elements(tresult) = {FromInt(99), FromInt(7)}

\* C26: GetRandomSide(prng, idx, min, max) returns one side of slot idx chosen
\* by the coin, the slot's lhs on one outcome and its rhs on the other, each
\* only if it lies in [min, max] and nothing otherwise; so for a slot (l, r)
\* with l # r and both in range, both l and r are possible results.
C26_RandomSideReturnsEitherSide ==
  tcall[1] = "GetRandomSide" =>
    LET entry == EntryAt(cmp_table.table_, tcall[3])
        side == IF tcall[2] THEN entry.lhs ELSE entry.rhs
    IN  tresult = IF NumLeq(tcall[4], side) /\ NumLeq(side, tcall[5])
                    THEN Some(side)
                    ELSE Nullopt

\* min <= x <= max
Within(x, min, max) == NumLeq(min, x) /\ NumLeq(x, max)

\* C27: GetRandomTORCEntry(val, prng, torc, min, max) picks one slot; if the
\* slot holds val on one side and the other side lies in [min, max] it returns
\* that other side, otherwise what GetRandomSide yields for the same slot (one
\* of its sides or nothing); every value it returns lies in [min, max].
C27_RandomTorcEntry ==
  tcall[1] = "GetRandomTORCEntry" =>
    LET val == tcall[2]
        min == tcall[5]
        max == tcall[6]
        entry == EntryAt(cmp_table.table_, tcall[3])
        other == IF entry.lhs = val THEN entry.rhs ELSE entry.lhs
        matched == (entry.lhs = val \/ entry.rhs = val) /\ Within(other, min, max)
    IN  /\ matched => tresult = Some(other)
        /\ ~matched =>
             /\ tresult = TORC_GetRandomSide(cmp_table, tcall[4], tcall[3], min, max)
             /\ tresult.has_value => tresult.value \in {entry.lhs, entry.rhs}
        /\ tresult.has_value => Within(tresult.value, min, max)

\* the slot drawn holds (42, 99) and 42 is looked up in [0, 50]: 99 is out of
\* range, and the call falls back to GetRandomSide, which returns 42
C27_Witness ==
  /\ tcall[1] = "GetRandomTORCEntry"
  /\ tcall[2] = FromInt(42)
  /\ EntryAt(cmp_table.table_, tcall[3]) = [lhs |-> FromInt(42), rhs |-> FromInt(99)]
  /\ tcall[6] = FromInt(50)
  /\ tresult = Some(FromInt(42))

\* the first n bytes of the buffer buf are the first n bytes of src
StartsWith(buf, src, n) == \A i \in 1..n : BufByte(buf, i) = src[i]

\* the buffers a and b hold the same bytes from byte n on (counted from 0)
SameFrom(a, b, n) == \A i \in (n + 1)..MEM_kEntrySize : BufByte(a, i) = BufByte(b, i)

\* a step of Insert(p1, p2, n) moves the cursor to (37k + 89) mod 128, stores
\* min(n, 127) as the length of that slot, copies that many bytes of p1 and of
\* p2 to the start of its buffers and leaves their other bytes and every
\* other slot as they were
InsertStep ==
  mcall'[1] = "Insert" /\ minserted' # minserted =>
    LET k == (37 * mem_cmp_table.insert_index_ + 89) % 128
        len == Min(mcall'[4], 127)
        old == BufferEntryAt(mem_cmp_table.table_, k)
        new == BufferEntryAt(mem_cmp_table'.table_, k)
    IN  /\ mem_cmp_table'.insert_index_ = k
        /\ new.buf_size = len
        /\ StartsWith(new.buf1, mcall'[2], len) /\ SameFrom(new.buf1, old.buf1, len)
        /\ StartsWith(new.buf2, mcall'[3], len) /\ SameFrom(new.buf2, old.buf2, len)
        /\ \A j \in 0..127 : j # k =>
             BufferEntryAt(mem_cmp_table'.table_, j) = BufferEntryAt(mem_cmp_table.table_, j)

\* every slot holds a length of 0..127 and buffers of at most 128 bytes
SlotsInBounds ==
  \A j \in DOMAIN mem_cmp_table.table_ :
    /\ mem_cmp_table.table_[j].buf_size \in 0..127
    /\ Len(mem_cmp_table.table_[j].buf1) <= 128
    /\ Len(mem_cmp_table.table_[j].buf2) <= 128

\* C28: Insert(p1, p2, n) on the table of recently compared buffers advances
\* the cursor by k <- (37k + 89) mod 128, stores len = min(n, 127) in slot k
\* and copies exactly len bytes of p1 into buf1 and of p2 into buf2; after any
\* sequence of inserts every slot has a length in 0..127 and no copy has
\* written past a 128-byte buffer.
C28_BufferInsert == [][InsertStep]_vars /\ []SlotsInBounds

\* an Insert of 4 bytes has overwritten the start of a slot that held 8 bytes
C28_Witness ==
  /\ mcall = <<"Insert", HUNTER2, PASSWORD, 4>>
  /\ Len(minserted) = 2 /\ minserted[1] = MEM_kTableSize
  /\ BufferEntryAt(mem_cmp_table.table_, mem_cmp_table.insert_index_) =
       [buf_size |-> 4, buf1 |-> <<104, 117, 110, 116, 87, 79, 82, 68>>,
        buf2 |-> <<80, 65, 83, 83, 101, 114, 50, 61>>]

\* the first len bytes of the buffer buf
Prefix(buf, len) == [i \in 1..len |-> BufByte(buf, i)]

\* the element offsets at which the bytes pat occur in the container val of
\* elements of w bytes
OffsetsOf(pat, val, w) ==
  {o \in 0..(Len(val) \div w) :
     o * w + Len(pat) <= Len(val) /\ SubSeq(val, o * w + 1, o * w + Len(pat)) = pat}

\* what the slot (len, buf1, buf2) is to yield for the container val
SlotYield(w, val, len, buf1, buf2) ==
  IF len = 0 \/ len % w # 0 \/ len > Len(val) THEN NoEntry
  ELSE IF OffsetsOf(Prefix(buf1, len), val, w) # {}
    THEN [has_value |-> TRUE,
          position_hint |-> [has_value |-> TRUE,
                             value |-> Least(OffsetsOf(Prefix(buf1, len), val, w))],
          value |-> Prefix(buf2, len)]
  ELSE IF OffsetsOf(Prefix(buf2, len), val, w) # {}
    THEN [has_value |-> TRUE,
          position_hint |-> [has_value |-> TRUE,
                             value |-> Least(OffsetsOf(Prefix(buf2, len), val, w))],
          value |-> Prefix(buf1, len)]
  ELSE NoEntry

\* C29: for a container val of elements of w bytes, a slot (len, buf1, buf2)
\* of the table of recently compared buffers yields no entry when len = 0, len
\* mod w # 0 or len exceeds the bytes of val; otherwise, if buf1[0..len) occurs
\* element-aligned in val, it yields the element offset of the first
\* occurrence as the hint and buf2[0..len) as the value; else if buf2[0..len)
\* occurs, its first offset and buf1[0..len); else nothing.
C29_SlotMatch ==
  mcall[1] = "GetMatchingContainerDictionaryEntry" =>
    mresult = SlotYield(mcall[2], mcall[3], BufferEntryAt(mem_cmp_table.table_, mcall[4]).buf_size,
                        BufferEntryAt(mem_cmp_table.table_, mcall[4]).buf1,
                        BufferEntryAt(mem_cmp_table.table_, mcall[4]).buf2)

\* after Insert("PASSWORD", "hunter2=", 8), the slot it wrote yields hint 1
\* and "hunter2=" for "XPASSWORD!"
C29_Witness ==
  /\ minserted = <<1>>
  /\ mcall = <<"GetMatchingContainerDictionaryEntry", 1, <<88>> \o PASSWORD \o <<33>>, 89>>
  /\ BufferEntryAt(mem_cmp_table.table_, 89) =
       [buf_size |-> 8, buf1 |-> PASSWORD, buf2 |-> HUNTER2]
  /\ mresult = [has_value |-> TRUE, position_hint |-> [has_value |-> TRUE, value |-> 1],
                value |-> HUNTER2]

\* the dictionary holds the entry that the optional yield carries, if any
Holds(dictionary, yield) ==
  yield.has_value =>
    \E i \in DOMAIN dictionary :
      dictionary[i] = [position_hint |-> yield.position_hint, value |-> yield.value]

\* the size low bytes of the operand x, the lowest first
LowBytes(x, size) == [j \in 1..size |-> ByteOfNum(x, j - 1)]

\* the dictionary holds what every slot of the integer table t yields for
\* val when its operands are read as their size low bytes
HoldsIntegerMatches(dictionary, w, val, t, size) ==
  Len(val) >= size =>
    \A idx \in 0..(TORC_kTableSize(t.w) - 1) :
      idx \in DOMAIN t.table_ \/ idx = Cardinality(DOMAIN t.table_) =>
        Holds(dictionary, SlotYield(w, val, size, LowBytes(EntryAt(t.table_, idx).lhs, size),
                                    LowBytes(EntryAt(t.table_, idx).rhs, size)))

\* C30: after MatchEntriesFromTableOfRecentCompares(val, torc) the dictionary
\* holds the matches of the buffer table and, for every slot of the 4-byte
\* and of the 8-byte integer table one of whose operands, read as its 4 or 8
\* bytes, occurs element-aligned inside val, an entry with the hint and the
\* bytes of the other operand, and, when the elements are at most 4 bytes
\* wide, also for every 8-byte slot whose operand truncated to 32 bits
\* occurs inside val; for every val with at least as many bytes as the
\* operand.
C30_DictionaryMatch ==
  mcall[1] = "MatchEntriesFromTableOfRecentCompares" =>
    /\ \A idx \in DOMAIN mem_cmp_table.table_ :
         Holds(dictionary_, SlotYield(mcall[2], mcall[3], mem_cmp_table.table_[idx].buf_size,
                                      mem_cmp_table.table_[idx].buf1,
                                      mem_cmp_table.table_[idx].buf2))
    /\ HoldsIntegerMatches(dictionary_, mcall[2], mcall[3], i32_cmp_table, 4)
    /\ HoldsIntegerMatches(dictionary_, mcall[2], mcall[3], i64_cmp_table, 8)
    /\ mcall[2] <= 4 => HoldsIntegerMatches(dictionary_, mcall[2], mcall[3], i64_cmp_table, 4)

\* CreateEnvironmentFromFlags was called
EnvironmentRequested == ecall[1] = "CreateEnvironmentFromFlags"

\* both of --stop_at and --stop_after have a value other than their default
BothStopFlagsGiven ==
  flags.stop_at.kind # "infinite-future" /\ flags.stop_after.kind # "infinite"

\* C31: when --j=N is non-zero, the environment CreateEnvironmentFromFlags
\* returns has num_threads = N, total_shards = N and my_shard_index = 0
\* whatever --num_threads, --total_shards and --first_shard_index are, and
\* the checks on the shards are made on these values: no value of the three
\* flags makes them fail.
C31_JOverridesShardFlags ==
  (EnvironmentRequested /\ flags.j # FromInt(0)) =>
    /\ eresult.ok <=> ~BothStopFlagsGiven
    /\ eresult.ok =>
         /\ eresult.value.num_threads = flags.j
         /\ eresult.value.total_shards = flags.j
         /\ eresult.value.my_shard_index = FromInt(0)

\* --j=2 with --total_shards=0 --num_threads=0 and the largest
\* --first_shard_index gave an environment of 2 threads and 2 shards
C31_Witness ==
  /\ EnvironmentRequested
  /\ flags.j = FromInt(2)
  /\ flags.total_shards = FromInt(0)
  /\ flags.num_threads = FromInt(0)
  /\ flags.first_shard_index = kMaxUint64
  /\ eresult.ok
  /\ eresult.value.total_shards = FromInt(2)
  /\ eresult.value.my_shard_index = FromInt(0)

\* C32: --stop_at and --stop_after are mutually exclusive:
\* CreateEnvironmentFromFlags fails its check when both are non-default;
\* otherwise the stop_at of the environment is the given --stop_at if set,
\* now + --stop_after if that is set, and infinite future when neither is.
C32_StopFlagsExclusive ==
  EnvironmentRequested =>
    /\ BothStopFlagsGiven => ~eresult.ok
    /\ eresult.ok =>
         eresult.value.stop_at =
           IF flags.stop_at.kind = "finite" THEN flags.stop_at
           ELSE IF flags.stop_after.kind = "finite"
             THEN [kind |-> "finite", rep |-> ecall[2].rep + flags.stop_after.rep]
           ELSE [kind |-> "infinite-future", rep |-> 0]

\* --stop_after=50s alone, at time 20, gave stop_at = 70
C32_Witness ==
  /\ EnvironmentRequested
  /\ flags.stop_at = InfiniteFuture
  /\ flags.stop_after = FiniteDuration(50)
  /\ ecall[2] = FiniteTime(20)
  /\ eresult.ok
  /\ eresult.value.stop_at = FiniteTime(70)

\* no SilenceTargetStdoutAndStderr is in effect after the calls made: there
\* was no call, or the last one was a Restore
NoSilenceInEffect(calls) == calls = <<>> \/ calls[Len(calls)] = "Restore"

\* a step of RestoreTargetStdoutAndStderr taken while no Silence is in effect
\* aborts and leaves the descriptors alone
RestoreUnsilencedStep ==
  (lcalls' = Append(lcalls, "Restore") /\ NoSilenceInEffect(lcalls)) =>
    /\ ~logging'.ok
    /\ logging'.fds = logging.fds

\* C33: RestoreTargetStdoutAndStderr called when no
\* SilenceTargetStdoutAndStderr is in effect (initially, or after a previous
\* Restore) fails its check and aborts, without changing file descriptors 1
\* and 2.
C33_RestoreWithoutSilenceAborts == [][RestoreUnsilencedStep]_vars

\* a Restore that followed a Silence and its Restore aborted
C33_Witness ==
  /\ lcalls = <<"Silence", "Restore", "Restore">>
  /\ ~logging.ok
  /\ logging.fds = LoggingAtStart.fds

\* C40: for every sequence of SilenceTargetStdoutAndStderr and
\* RestoreTargetStdoutAndStderr calls, whenever a Restore completes without
\* aborting, file descriptors 1 and 2 again refer to what they referred to
\* before the first Silence and GetStderr() returns the original stderr
\* stream; between a Silence and its Restore, GetStderr() refers to the
\* original destination of stderr while descriptor 2 refers to /dev/null.
C40_SilenceRestoreRoundTrip ==
  (lcalls # <<>> /\ logging.ok) =>
    IF lcalls[Len(lcalls)] = "Restore"
      THEN /\ logging.fds[1] = "terminal-out"
           /\ logging.fds[2] = "terminal-err"
           /\ GetStderr(logging) = Stderr
      ELSE /\ logging.fds[GetStderr(logging).fd] = "terminal-err"
           /\ logging.fds[2] = "/dev/null"

\* ---------------------------------------------------------------------------
\* One table filled by one thread: Insert after Insert of one pair into an
\* integer table of any width, or of one pair of buffers into the buffer
\* table, for kTableSize calls (SpecPeriod).
\* ---------------------------------------------------------------------------

\* the number of Insert calls the integer table has taken
PeriodInserts == IF tinserted = <<>> THEN 0 ELSE tinserted[1][3]

\* the number of Insert calls the buffer table has taken
PeriodMemInserts == IF minserted = <<>> THEN 0 ELSE minserted[1]

\* cmp_table.Insert(1, 2), while the buffer table is untouched
P_Insert ==
  /\ minserted = <<>>
  /\ PeriodInserts < TORC_kTableSize(cmp_table.w)
  /\ cmp_table' = TORC_Insert(cmp_table, FromInt(1), FromInt(2))
  /\ tinserted' = << <<FromInt(1), FromInt(2), PeriodInserts + 1>> >>
  /\ tcall' = <<"Insert", FromInt(1), FromInt(2)>>
  /\ tresult' = <<>>
  /\ UNCHANGED <<ipc, iregs>>
  /\ TorcFrame

\* mem_cmp_table.Insert("PASSWORD", "hunter2=", 8), while the integer table
\* is untouched
P_MemInsert ==
  /\ tinserted = <<>>
  /\ PeriodMemInserts < MEM_kTableSize
  /\ mem_cmp_table' = MEM_Insert(mem_cmp_table, PASSWORD, HUNTER2, 8)
  /\ minserted' = <<PeriodMemInserts + 1>>
  /\ mcall' = <<"Insert", PASSWORD, HUNTER2, 8>>
  /\ mresult' = <<>>
  /\ MemFrame

NextPeriod ==
  \/ P_Insert
  \/ P_MemInsert

SpecPeriod == InitTorc /\ [][NextPeriod]_vars

\* C34: in single-threaded use, the Insert calls made so far on a table, at
\* most kTableSize of them, wrote as many distinct slots as there were calls
\* (4096/w slots for the integer table of width w, 128 for the buffer table)
C34_FullPeriod ==
  /\ Cardinality(DOMAIN cmp_table.table_) = PeriodInserts
  /\ Cardinality(DOMAIN mem_cmp_table.table_) = PeriodMemInserts

\* the same, for the tables whose mask is not narrowed: the integer tables
\* of width 2, 4 and 8 and the buffer table
C34_FullPeriodWide ==
  cmp_table.w # 1 => C34_FullPeriod

\* the table of width 1 after 257 calls: 256 slots written
C34_NarrowRepeats ==
  /\ cmp_table.w = 1
  /\ PeriodInserts = 257
  /\ Cardinality(DOMAIN cmp_table.table_) = 256

\* the operands the Insert calls of the sequence inserted paired with val
PairedWith(inserted, val) ==
  {inserted[i][2] : i \in {j \in DOMAIN inserted : inserted[j][1] = val}}
    \cup {inserted[i][1] : i \in {j \in DOMAIN inserted : inserted[j][2] = val}}

\* fewer Insert calls than slots: some slot was never written
SomeSlotNeverWritten == NumInserts(tinserted) < TORC_kTableSize(cmp_table.w)

\* C38: on a table no Insert was made on, GetMatchingIntegerDictionaryEntries
\* (val, min, max) is empty for val != 0 and is {0} for val = 0 with 0 in
\* [min, max]; after Insert calls every value returned is the other operand
\* of an inserted pair that contains val, or the 0 of a never-written slot
\* (val = 0)
C38_FreshTableMatches ==
  IsMatchCall =>
    /\ (tinserted = <<>> /\ tcall[2] # <<>>) => tresult = <<>>
    /\ (tinserted = <<>> /\ tcall[2] = <<>> /\ tcall[3] = <<>>) => tresult = << <<>> >>
    /\ \A v \in Elements(tresult) :
         \/ v \in PairedWith(tinserted, tcall[2])
         \/ v = <<>> /\ tcall[2] = <<>> /\ SomeSlotNeverWritten

\* 0 looked up after Insert(7, 42): the 0 of the never-written slots is
\* returned, and no operand of the inserted pair
C38_Witness ==
  /\ IsMatchCall
  /\ tcall[2] = <<>>
  /\ tinserted = << <<FromInt(7), FromInt(42), 1>> >>
  /\ tresult = << <<>> >>

\* 0 looked up on the table no Insert was made on
C38_FreshZero ==
  /\ IsMatchCall
  /\ tcall[2] = <<>>
  /\ tinserted = <<>>
  /\ tresult = << <<>> >>

\* the entries a match of the container dictionary derives from the three
\* tables for a container val of elements of w bytes, in the order of the
\* slots
DerivedEntries(w, val) ==
  AddMatchingIntegerDictionaryEntriesFromTORC(
    GetMatchingContainerDictionaryEntries(mem_cmp_table, w, val), w, val,
    i32_cmp_table, i64_cmp_table)

\* the values a match of the integer dictionary derives from the 4-byte table
DerivedIntegers(val, min, max) ==
  GetMatchingIntegerDictionaryEntries(i32_cmp_table, val, min, max)

\* the sequences a and b hold the same elements, each as many times
SameEntries(a, b) ==
  /\ Len(a) = Len(b)
  /\ \A e \in Elements(a) \cup Elements(b) : Occurrences(a, e) = Occurrences(b, e)

\* a step of MatchEntriesFromTableOfRecentCompares leaves in the dictionary
\* the entries derived from the tables for val and nothing else, whatever
\* the dictionary held
MatchReplacesStep ==
  /\ mcall'[1] = "MatchEntriesFromTableOfRecentCompares" =>
       \A derived \in {DerivedEntries(mcall'[2], mcall'[3])}, held \in {dictionary_'} :
         SameEntries(held, derived)
  /\ mcall'[1] = "IntegerMatchEntriesFromTableOfRecentCompares" =>
       \A derived \in {DerivedIntegers(mcall'[2], mcall'[3], mcall'[4])},
          held \in {int_dictionary_'} :
         SameEntries(held, derived)

\* a step of AddEntry appends the entry and changes nothing else
AddEntryAppendsStep ==
  /\ mcall'[1] = "AddEntry" =>
       /\ dictionary_' = Append(dictionary_, mcall'[2])
       /\ Dictionary_Size(dictionary_') = Dictionary_Size(dictionary_) + 1
       /\ UNCHANGED <<int_dictionary_, mem_cmp_table, i32_cmp_table, i64_cmp_table>>
  /\ mcall'[1] = "IntegerAddEntry" =>
       /\ int_dictionary_' = Append(int_dictionary_, mcall'[2])
       /\ Dictionary_Size(int_dictionary_') = Dictionary_Size(int_dictionary_) + 1
       /\ UNCHANGED <<dictionary_, mem_cmp_table, i32_cmp_table, i64_cmp_table>>

\* C39: MatchEntriesFromTableOfRecentCompares on an IntegerDictionary or a
\* ContainerDictionary replaces the contents: afterwards the dictionary holds
\* the entries derived from the tables for val and none of the entries added
\* by AddEntry or by an earlier match; AddEntry appends one entry, Size()
\* grows by one
C39_MatchReplacesAddEntryAppends ==
  [][MatchReplacesStep /\ AddEntryAppendsStep]_vars

\* "XX" was added, "PASSWORD" was then matched against the buffer table
\* that holds ("PASSWORD", "hunter2="): the dictionary holds the one derived
\* entry and "XX" is gone
C39_Witness ==
  /\ mcall = <<"MatchEntriesFromTableOfRecentCompares", 1, PASSWORD>>
  /\ dadded = << [dictionary |-> "container",
                  entry |-> [position_hint |-> NoHint, value |-> <<88, 88>>]] >>
  /\ dictionary_ = << [position_hint |-> Some(0), value |-> HUNTER2] >>

\* 5 was added to the integer dictionary, "PASS" was then matched against the
\* 4-byte table that holds ("PASS", "hunt"): the dictionary holds "hunt" only
C39_IntegerWitness ==
  /\ mcall[1] = "IntegerMatchEntriesFromTableOfRecentCompares"
  /\ dadded = << [dictionary |-> "integer", entry |-> FromInt(5)] >>
  /\ int_dictionary_ = << IntegerOfBytes(SubSeq(HUNTER2, 1, 4)) >>

\* "hunter2=" at element 0 was added twice: Size() is 2
C39_AppendWitness ==
  /\ mcall[1] = "AddEntry"
  /\ Dictionary_Size(dictionary_) = 2
  /\ dictionary_[1] = dictionary_[2]

\* the number of SaturatedIncrement(idx) calls begun on the set target since
\* the sets were last empty
IncrementsOn(target, idx) ==
  LET c == <<target, "SaturatedIncrement", idx, 0>>
  IN  IF c \in DOMAIN CurLog THEN CurLog[c] ELSE 0

\* C37: when k >= 1 SaturatedIncrement calls on one index of an empty set
\* have run to their end on several threads, in any interleaving and with no
\* Set, clear or drain since the set was empty, the byte holds a value v with
\* 1 <= v <= min(k, 255)
C37_LossyCountInRange ==
  (Quiescent /\ ~Trapped /\ OnlyIncrements(CurLog)) =>
    \A i \in ConcIndices :
      /\ IncrementsOn("single", i) >= 1 =>
           ByteAt(bytes_, i) \in 1..Min(IncrementsOn("single", i), 255)
      /\ IncrementsOn("layered", i) >= 1 =>
           ByteAt(lower_layer_, i) \in 1..Min(IncrementsOn("layered", i), 255)

\* both threads have ended their SaturatedIncrement(0) on the single-layer
\* set and the byte holds 1: one increment is lost
C37_Witness ==
  /\ Quiescent
  /\ OnlyIncrements(CurLog)
  /\ IncrementsOn("single", 0) = 2
  /\ ByteAt(bytes_, 0) = 1

\* three calls on the lower layer of the two-layer set, all counted
C37_AllCounted ==
  /\ Quiescent
  /\ OnlyIncrements(CurLog)
  /\ IncrementsOn("layered", 0) = 3
  /\ ByteAt(lower_layer_, 0) = 3

\* the number of ConcurrentByteSet layers of a byte set
RECURSIVE NumFlatLayers(_)
NumFlatLayers(s) ==
  IF s.kind = "flat" THEN 1 ELSE NumFlatLayers(s.upper) + NumFlatLayers(s.lower)

\* Lower::kSizeMultiple * Upper::kSizeMultiple, multiplied out: 64 for every
\* ConcurrentByteSet layer
RECURSIVE PowerOf64(_)
PowerOf64(n) == IF n = 0 THEN 1 ELSE 64 * PowerOf64(n - 1)
ProductOfSizeMultiples(s) == PowerOf64(NumFlatLayers(s))

\* the checks at the head of LayeredConcurrentByteSet::ForEachNonZeroByte
OwnChecksTrap(s, from, to) ==
  \/ to > s.size
  \/ from % ProductOfSizeMultiples(s) # 0
  \/ to % ProductOfSizeMultiples(s) # 0

\* at every layered level the lower layer is as many times the size of the
\* upper layer as the kSizeMultiple of the lower layer says
RECURSIVE LayersProportioned(_)
LayersProportioned(s) ==
  IF s.kind = "flat" THEN TRUE
  ELSE /\ s.lower.size = s.upper.size * ProductOfSizeMultiples(s.lower)
       /\ LayersProportioned(s.upper)
       /\ LayersProportioned(s.lower)

\* the last call was a ForEachNonZeroByte, of the full range or of a part
IsDrainCall == nop[1] \in {"ForEachNonZeroByte", "ForEachNonZeroByteRange"}

\* C36 as stated: ForEachNonZeroByte(action, from, to) of a
\* LayeredConcurrentByteSet traps exactly when to > kSize or from or to is no
\* multiple of Lower::kSizeMultiple * Upper::kSizeMultiple; on every other
\* range no check of an inner layer traps.
C36_TrapsExactlyOnOwnChecks ==
  IsDrainCall => (ntrap <=> OwnChecksTrap(nested, nop[2], nop[3]))

\* C36 amended: the same, for the layered byte sets in which every layered
\* level has kLayerRatio equal to the kSizeMultiple of its lower layer, as
\* TwoLayerConcurrentByteSet has.
C36_ProportionedTrapsExactlyOnOwnChecks ==
  (IsDrainCall /\ LayersProportioned(nested)) =>
    (ntrap <=> OwnChecksTrap(nested, nop[2], nop[3]))

\* a TwoLayerConcurrentByteSet drained the bytes after its first 4096 without
\* a trap and reported the last byte
C36_Witness ==
  /\ nested.upper.kind = "flat" /\ nested.lower.kind = "flat"
  /\ nop = <<"ForEachNonZeroByteRange", kLayeredSizeMultiple, nested.size>>
  /\ ~ntrap
  /\ ncalls = << <<nested.size - 1, 42>> >>

\* the byte set with a two-layer Lower drained its first kSizeMultiple bytes
\* without a trap and reported a byte
C36_NestedWitness ==
  /\ nested.lower.kind = "layered"
  /\ nop[1] = "ForEachNonZeroByteRange"
  /\ ~ntrap
  /\ ncalls # <<>>

\* a range on multiples of 64 that are no multiples of 4096 trapped on a
\* TwoLayerConcurrentByteSet
C36_TrapWitness ==
  /\ nested.upper.kind = "flat" /\ nested.lower.kind = "flat"
  /\ nop = <<"ForEachNonZeroByteRange", kSizeMultiple, nested.size>>
  /\ ntrap

\* ---------------------------------------------------------------------------
\* Threads that call Insert on one TableOfRecentCompares<T> at the same time
\* (SpecRace).  Insert is three statements on plain members: the read of
\* insert_index_, the write of insert_index_, the write of table_[.].lhs and
\* the write of table_[.].rhs are steps of their own.  The accesses race, so
\* a build may index table_ with the value it computed or with insert_index_
\* as it reads it again: both are outcomes of each write to table_.
\* ---------------------------------------------------------------------------

\* Insert calls begun on the table by all threads together.
MaxRaceInserts == 2

\* the operands of the n-th Insert call begun
RacePair(n) == <<FromInt(2 * n - 1), FromInt(2 * n)>>

\* no thread is inside Insert
InsertQuiescent == \A t \in Threads : ipc[t] = "idle"

\* thread t enters Insert(lhs, rhs) and reads insert_index_
R_Insert(t) ==
  /\ ipc[t] = "idle"
  /\ Len(tinserted) < MaxRaceInserts
  /\ LET pair == RacePair(Len(tinserted) + 1)
     IN  /\ iregs' = [iregs EXCEPT ![t] = [k |-> cmp_table.insert_index_,
                                           lhs |-> pair[1], rhs |-> pair[2]]]
         /\ tinserted' = Append(tinserted, <<pair[1], pair[2], 1, t>>)
         /\ tcall' = <<"Insert", t, pair[1], pair[2]>>
  /\ ipc' = [ipc EXCEPT ![t] = "index"]
  /\ UNCHANGED <<cmp_table, tresult>>
  /\ TorcFrame

\* insert_index_ = (insert_index_ * 37 + 89) & kValueMask, from the value read
R_StoreIndex(t) ==
  /\ ipc[t] = "index"
  /\ LET k == TORC_NextIndex(cmp_table.w, iregs[t].k)
     IN  /\ cmp_table' = [cmp_table EXCEPT !.insert_index_ = k]
         /\ iregs' = [iregs EXCEPT ![t].k = k]
         /\ tcall' = <<"Insert.index", t, k>>
  /\ ipc' = [ipc EXCEPT ![t] = "lhs"]
  /\ UNCHANGED <<tinserted, tresult>>
  /\ TorcFrame

\* table_[insert_index_].lhs = lhs
R_StoreLhs(t, reload) ==
  /\ ipc[t] = "lhs"
  /\ LET k == IF reload THEN cmp_table.insert_index_ ELSE iregs[t].k
     IN  /\ cmp_table' = [cmp_table EXCEPT !.table_ =
                            StoreEntry(@, k, iregs[t].lhs, EntryAt(@, k).rhs)]
         /\ iregs' = [iregs EXCEPT ![t].k = k]
         /\ tcall' = <<"Insert.lhs", t, k>>
  /\ ipc' = [ipc EXCEPT ![t] = "rhs"]
  /\ UNCHANGED <<tinserted, tresult>>
  /\ TorcFrame

\* table_[insert_index_].rhs = rhs
R_StoreRhs(t, reload) ==
  /\ ipc[t] = "rhs"
  /\ LET k == IF reload THEN cmp_table.insert_index_ ELSE iregs[t].k
     IN  /\ cmp_table' = [cmp_table EXCEPT !.table_ =
                            StoreEntry(@, k, EntryAt(@, k).lhs, iregs[t].rhs)]
         /\ tcall' = <<"Insert.rhs", t, k>>
  /\ iregs' = [iregs EXCEPT ![t] = IdleInsert]
  /\ ipc' = [ipc EXCEPT ![t] = "idle"]
  /\ UNCHANGED <<tinserted, tresult>>
  /\ TorcFrame

NextRace ==
  \/ \E t \in Threads : R_Insert(t)
  \/ \E t \in Threads : R_StoreIndex(t)
  \/ \E t \in Threads, reload \in BOOLEAN : R_StoreLhs(t, reload)
  \/ \E t \in Threads, reload \in BOOLEAN : R_StoreRhs(t, reload)

SpecRace == InitTorc /\ [][NextRace]_vars

\* the pairs the Insert calls begun so far were handed
InsertedPairs == {[lhs |-> tinserted[i][1], rhs |-> tinserted[i][2]] : i \in DOMAIN tinserted}

\* one thread made every Insert call
SingleInserter == \A i, j \in DOMAIN tinserted : tinserted[i][4] = tinserted[j][4]

\* a slot holds the lhs of one Insert call and the rhs of another
TornSlot(slot) ==
  /\ slot \in DOMAIN cmp_table.table_
  /\ cmp_table.table_[slot] \notin InsertedPairs
  /\ \E p, q \in InsertedPairs :
       cmp_table.table_[slot] = [lhs |-> p.lhs, rhs |-> q.rhs]

\* C35: whatever the interleaving of concurrent Insert calls on one integer
\* table, every write to table_ lands in a slot below kTableSize; and when
\* one thread alone has made the calls and is outside Insert, every slot
\* holds (0, 0) or a pair as one Insert call was handed it.  (That a slot can
\* hold the lhs of one call and the rhs of another under concurrent calls is
\* the state C35_Witness.)
C35_RacyInsertStaysInTable ==
  /\ tcall[1] \in {"Insert.lhs", "Insert.rhs"} =>
       tcall[3] \in 0..(TORC_kTableSize(cmp_table.w) - 1)
  /\ DOMAIN cmp_table.table_ \subseteq 0..(TORC_kTableSize(cmp_table.w) - 1)
  /\ (SingleInserter /\ InsertQuiescent) =>
       \A slot \in DOMAIN cmp_table.table_ : cmp_table.table_[slot] \in InsertedPairs

\* two threads have ended their Insert calls and a slot holds the lhs of one
\* call and the rhs of the other
C35_Witness ==
  /\ InsertQuiescent
  /\ ~SingleInserter
  /\ \E slot \in DOMAIN cmp_table.table_ : TornSlot(slot)

\* one thread has made two Insert calls and both pairs are in the table
C35_SingleWitness ==
  /\ InsertQuiescent
  /\ SingleInserter
  /\ Len(tinserted) = 2
  /\ Cardinality(DOMAIN cmp_table.table_) = 2

====
